---- MODULE Spec2Model ----
(***************************************************************************)
(* Zentest: the agentic driver (AgenticTester), the parsing of model       *)
(* responses and the suite loop of the run command, as state machines.     *)
(*                                                                         *)
(* Strings are sequences of one-character strings, so that includes,       *)
(* startsWith, toLowerCase and template concatenation are computed as the  *)
(* program computes them.  An optional value is the empty sequence when    *)
(* absent and a one-element sequence when present; an optional string is   *)
(* the empty string when absent (the program only tests it for truth).     *)
(***************************************************************************)
EXTENDS Integers, Sequences, FiniteSets, TLC

\* ---- string literals of the program ----
S_NoResponse == <<"N","o"," ","r","e","s","p","o","n","s","e"," ","f","r","o","m"," ","A","I">>
S_NoActionReturned == <<"N","o"," ","a","c","t","i","o","n"," ","r","e","t","u","r","n","e","d">>
S_FailedParseAI == <<"F","a","i","l","e","d"," ","t","o"," ","p","a","r","s","e"," ","A","I"," ","r","e","s","p","o","n","s","e">>
S_FailedParse == <<"F","a","i","l","e","d"," ","t","o"," ","p","a","r","s","e"," ","r","e","s","p","o","n","s","e">>
S_FailedParsePrefix == <<"F","a","i","l","e","d"," ","t","o"," ","p","a","r","s","e"," ","r","e","s","p","o","n","s","e",":"," ">>
S_UnknownAction == <<"U","n","k","n","o","w","n"," ","a","c","t","i","o","n",":">>
S_UnknownActionPrefix == <<"U","n","k","n","o","w","n"," ","a","c","t","i","o","n",":"," ">>
S_NoActionsReturned == <<"N","o"," ","a","c","t","i","o","n","s"," ","r","e","t","u","r","n","e","d">>
S_NoReasoning == <<"N","o"," ","r","e","a","s","o","n","i","n","g"," ","p","r","o","v","i","d","e","d">>
S_Repeated == <<"R","e","p","e","a","t","e","d"," ","s","a","m","e"," ","a","c","t","i","o","n"," ","w","i","t","h","o","u","t"," ","p","r","o","g","r","e","s","s">>
S_NoActionsFromAI == <<"N","o"," ","a","c","t","i","o","n","s"," ","r","e","t","u","r","n","e","d"," ","f","r","o","m"," ","A","I">>
S_MaxStepsPrefix == <<"M","a","x"," ","s","t","e","p","s"," ","(">>
S_MaxStepsSuffix == <<")"," ","r","e","a","c","h","e","d"," ","w","i","t","h","o","u","t"," ","c","o","m","p","l","e","t","i","n","g"," ","t","e","s","t">>
S_true == <<"t","r","u","e">>
S_false == <<"f","a","l","s","e">>
unfinished ==
  << <<"s","t","i","l","l"," ","n","e","e","d">>,
     <<"r","e","m","a","i","n","i","n","g">>,
     <<"m","o","r","e"," ","s","t","e","p","s">>,
     <<"n","o","t"," ","y","e","t">>,
     <<"h","a","v","e","n","'","t"," ","c","o","m","p","l","e","t","e","d">>,
     <<"n","e","x","t"," ","s","t","e","p">>,
     <<"c","o","n","t","i","n","u","e"," ","w","i","t","h">>,
     <<"h","a","v","e","n","'","t"," ","d","o","n","e">>,
     <<"n","o","t"," ","c","o","m","p","l","e","t","e">>,
     <<"i","n","c","o","m","p","l","e","t","e">> >>

\* ---- strings the model and the browser supply (inputs) ----
R_Plain == <<"g","o">>
R_Unfinished == <<"N","o","t"," ","y","e","t">>
D_Ok == <<"o","k">>
D_Stuck == <<"s","t","u","c","k">>
T_Garbage == <<"o","o","p","s">>
T_Hi == <<"h","i">>
E_Timeout == <<"T","i","m","e","o","u","t">>
E_Closed == <<"c","l","o","s","e","d">>
E_Http == <<"H","T","T","P"," ","5","0","0">>

\* ---- bounds ----
\* config.maxSteps ranges over 0..MaxConfigSteps; a run whose effective cap is
\* larger (the default) is explored up to MaxConfigSteps recorded steps.
MaxConfigSteps == 4
\* number of tests of the suite
NumTests == 2

\* ---- program constants ----
DefaultMaxSteps == 50
DefaultRetryNoResponse == 2
RepeatCount == 3

\* ---- string primitives ----
\* String.prototype.includes
Includes(s, p) ==
  \E i \in 0..(Len(s) - Len(p)) : SubSeq(s, i + 1, i + Len(p)) = p

\* String.prototype.startsWith
StartsWith(s, p) ==
  Len(s) >= Len(p) /\ SubSeq(s, 1, Len(p)) = p

LowerChar(c) ==
  CASE c = "A" -> "a" [] c = "B" -> "b" [] c = "C" -> "c" [] c = "D" -> "d"
    [] c = "E" -> "e" [] c = "F" -> "f" [] c = "G" -> "g" [] c = "H" -> "h"
    [] c = "I" -> "i" [] c = "J" -> "j" [] c = "K" -> "k" [] c = "L" -> "l"
    [] c = "M" -> "m" [] c = "N" -> "n" [] c = "O" -> "o" [] c = "P" -> "p"
    [] c = "Q" -> "q" [] c = "R" -> "r" [] c = "S" -> "s" [] c = "T" -> "t"
    [] c = "U" -> "u" [] c = "V" -> "v" [] c = "W" -> "w" [] c = "X" -> "x"
    [] c = "Y" -> "y" [] c = "Z" -> "z" [] OTHER -> c

\* String.prototype.toLowerCase
ToLowerCase(s) == [i \in 1..Len(s) |-> LowerChar(s[i])]

DigitChar(d) ==
  CASE d = 0 -> "0" [] d = 1 -> "1" [] d = 2 -> "2" [] d = 3 -> "3"
    [] d = 4 -> "4" [] d = 5 -> "5" [] d = 6 -> "6" [] d = 7 -> "7"
    [] d = 8 -> "8" [] d = 9 -> "9"

\* a non-negative integer in a template literal
RECURSIVE NumToStr(_)
NumToStr(n) ==
  IF n < 10 THEN <<DigitChar(n)>>
  ELSE NumToStr(n \div 10) \o <<DigitChar(n % 10)>>

\* a boolean in a template literal
BoolToStr(b) == IF b THEN S_true ELSE S_false

\* the type tag of an action as text
TypeStr(t) ==
  CASE t = "click" -> <<"c","l","i","c","k">>
    [] t = "type"  -> <<"t","y","p","e">>
    [] t = "done"  -> <<"d","o","n","e">>
    [] t = "foo"   -> <<"f","o","o">>
    [] t = "double_click" -> <<"d","o","u","b","l","e","_","c","l","i","c","k">>
    [] t = "mouse_move" -> <<"m","o","u","s","e","_","m","o","v","e">>
    [] t = "mouse_down" -> <<"m","o","u","s","e","_","d","o","w","n">>
    [] t = "mouse_up" -> <<"m","o","u","s","e","_","u","p">>
    [] t = "drag" -> <<"d","r","a","g">>
    [] t = "click_button" -> <<"c","l","i","c","k","_","b","u","t","t","o","n">>
    [] t = "click_text" -> <<"c","l","i","c","k","_","t","e","x","t">>
    [] t = "select_input" -> <<"s","e","l","e","c","t","_","i","n","p","u","t">>
    [] t = "key" -> <<"k","e","y">>
    [] t = "scroll" -> <<"s","c","r","o","l","l">>
    [] t = "wait" -> <<"w","a","i","t">>
    [] t = "screenshot" -> <<"s","c","r","e","e","n","s","h","o","t">>
    [] t = "assert_visible" -> <<"a","s","s","e","r","t","_","v","i","s","i","b","l","e">>
    [] t = "assert_text" -> <<"a","s","s","e","r","t","_","t","e","x","t">>
    [] t = "assert_not_text" -> <<"a","s","s","e","r","t","_","n","o","t","_","t","e","x","t">>

\* ---- actions ----
Click(x, y) == [type |-> "click", x |-> x, y |-> y, button |-> <<>>]
Type(text) == [type |-> "type", text |-> text]
Done(success, reason) == [type |-> "done", success |-> success, reason |-> reason]

\* ---- providers/actionParser ----
\* validateAction, for the raw actions the model returns here: click, type,
\* done and an action type the program does not know
validateAction(a) ==
  CASE a.type = "click" -> [type |-> "click", x |-> a.x, y |-> a.y, button |-> a.button]
    [] a.type = "type"  -> [type |-> "type", text |-> a.text]
    [] a.type = "done"  -> [type |-> "done", success |-> a.success, reason |-> a.reason]
    [] OTHER -> Done(FALSE, S_UnknownActionPrefix \o TypeStr(a.type))

\* parseJsonResponse.  content is the text of the model's reply: absent
\* (kind "none"), text that holds no JSON object (kind "text"), or a JSON
\* object with its actions array and reasoning (kind "json")
parseJsonResponse(content) ==
  CASE content.kind = "none" ->
         [actions |-> <<Done(FALSE, S_NoResponse)>>, reasoning |-> S_NoResponse]
    [] content.kind = "text" ->
         [actions |-> <<Done(FALSE, S_FailedParsePrefix \o content.text)>>,
          reasoning |-> S_FailedParseAI]
    [] content.kind = "json" ->
         LET reasoning == IF content.reasoning # <<>> THEN content.reasoning
                          ELSE S_NoReasoning
         IN IF Len(content.actions) > 0
            THEN [actions |-> [i \in 1..Len(content.actions) |->
                                  validateAction(content.actions[i])],
                  reasoning |-> reasoning]
            ELSE [actions |-> <<Done(FALSE, S_NoActionsReturned)>>,
                  reasoning |-> reasoning]

\* ---- AgenticTester: pure helpers ----
S_undefined == <<"u","n","d","e","f","i","n","e","d">>

\* `${v ?? ""}` of an optional boolean, <<>> when absent
OptBoolStr(v) == IF v = <<>> THEN <<>> ELSE BoolToStr(v[1])

\* `${v}` of an optional number, <<>> when absent
OptNumStr(v) == IF v = <<>> THEN S_undefined ELSE NumToStr(v[1])

actionSignature(action) ==
  CASE action.type \in {"click", "double_click", "mouse_move"} ->
         TypeStr(action.type) \o <<":">> \o NumToStr(action.x) \o <<",">>
           \o NumToStr(action.y) \o <<":">>
           \o (IF "button" \in DOMAIN action THEN action.button ELSE <<>>)
    [] action.type = "click_button" ->
         TypeStr(action.type) \o <<":">> \o action.name \o <<":">> \o OptBoolStr(action.exact)
    [] action.type = "click_text" ->
         TypeStr(action.type) \o <<":">> \o action.text \o <<":">> \o OptBoolStr(action.exact)
    [] action.type = "select_input" ->
         TypeStr(action.type) \o <<":">> \o action.field \o <<":">> \o action.value
           \o <<":">> \o OptBoolStr(action.exact)
    [] action.type = "type" ->
         TypeStr(action.type) \o <<":">> \o action.text
    [] action.type = "key" ->
         TypeStr(action.type) \o <<":">> \o action.key
    [] action.type = "scroll" ->
         TypeStr(action.type) \o <<":">> \o NumToStr(action.x) \o <<",">>
           \o NumToStr(action.y) \o <<":">> \o action.direction \o <<":">>
           \o OptNumStr(action.amount)
    [] action.type = "wait" ->
         TypeStr(action.type) \o <<":">> \o NumToStr(action.ms)
    [] action.type = "done" ->
         TypeStr(action.type) \o <<":">> \o BoolToStr(action.success) \o <<":">>
           \o action.reason
    [] action.type = "assert_visible" ->
         TypeStr(action.type) \o <<":">> \o NumToStr(action.x) \o <<",">>
           \o NumToStr(action.y)
    [] action.type \in {"assert_text", "assert_not_text"} ->
         TypeStr(action.type) \o <<":">> \o action.text
    [] OTHER -> TypeStr(action.type)

\* isRepeatedAction without its length check: slice(-n) of a shorter history
\* is the whole history, and every() of an empty array is true
isRepeatedAction_NoLengthCheck(actionHistory, action, repeatCount) ==
  \A i \in 1..Len(actionHistory) :
     i > Len(actionHistory) - repeatCount =>
       actionSignature(actionHistory[i].action) = actionSignature(action)

isRepeatedAction(actionHistory, action, repeatCount) ==
  IF Len(actionHistory) < repeatCount THEN FALSE
  ELSE \A i \in (Len(actionHistory) - repeatCount + 1)..Len(actionHistory) :
          actionSignature(actionHistory[i].action) = actionSignature(action)

\* Array.prototype.findIndex for the first done, 1-based; 0 when there is none
findDoneIndex(actions) ==
  IF \E i \in 1..Len(actions) : actions[i].type = "done"
  THEN CHOOSE i \in 1..Len(actions) :
         /\ actions[i].type = "done"
         /\ \A j \in 1..(i - 1) : actions[j].type # "done"
  ELSE 0

\* the phrase test without toLowerCase
hasUnfinishedPhrase_CaseSensitive(reasoning) ==
  \E k \in 1..Len(unfinished) : Includes(reasoning, unfinished[k])

hasUnfinishedPhrase(reasoning) ==
  \E k \in 1..Len(unfinished) : Includes(ToLowerCase(reasoning), unfinished[k])

\* normalizeResult removing a dropped done alone, keeping what follows it
normalizeResult_KeepsTail(res) ==
  LET actions0 == IF Len(res.actions) > 0 THEN res.actions
                  ELSE <<Done(FALSE, S_NoActionReturned)>>
      doneIndex == findDoneIndex(actions0)
      without == SubSeq(actions0, 1, doneIndex - 1)
                   \o SubSeq(actions0, doneIndex + 1, Len(actions0))
      dropped == \/ ~actions0[doneIndex].success /\ doneIndex > 1
                 \/ actions0[doneIndex].success /\ hasUnfinishedPhrase(res.reasoning)
  IN [actions |-> IF doneIndex > 0 /\ dropped THEN without ELSE actions0,
      reasoning |-> res.reasoning]

\* normalizeResult keeping a failing done that follows other actions
normalizeResult_KeepsFailDone(res) ==
  LET actions0 == IF Len(res.actions) > 0 THEN res.actions
                  ELSE <<Done(FALSE, S_NoActionReturned)>>
      doneIndex == findDoneIndex(actions0)
      actions1 == SubSeq(actions0, 1, doneIndex)
      actions3 == IF actions1[doneIndex].success /\ hasUnfinishedPhrase(res.reasoning)
                  THEN SubSeq(actions1, 1, doneIndex - 1) ELSE actions1
  IN [actions |-> IF doneIndex > 0 THEN actions3 ELSE actions0,
      reasoning |-> res.reasoning]

normalizeResult(res) ==
  LET actions0 == IF Len(res.actions) > 0 THEN res.actions
                  ELSE <<Done(FALSE, S_NoActionReturned)>>
      doneIndex == findDoneIndex(actions0)
      actions1 == SubSeq(actions0, 1, doneIndex)
      actions2 == IF ~actions1[doneIndex].success /\ Len(actions1) > 1
                  THEN SubSeq(actions1, 1, doneIndex - 1) ELSE actions1
      actions3 == IF actions1[doneIndex].success /\ hasUnfinishedPhrase(res.reasoning)
                  THEN SubSeq(actions2, 1, doneIndex - 1) ELSE actions2
  IN [actions |-> IF doneIndex > 0 THEN actions3 ELSE actions0,
      reasoning |-> res.reasoning]

\* shouldRetry matching on "No action" alone
shouldRetry_LoosePhrase(actions, reasoning) ==
  IF Len(actions) # 1 THEN FALSE
  ELSE IF actions[1].type # "done" THEN FALSE
  ELSE IF actions[1].success THEN FALSE
  ELSE LET reason == IF actions[1].reason # <<>> THEN actions[1].reason ELSE reasoning
       IN \/ Includes(reason, S_NoResponse)
          \/ Includes(reason, SubSeq(S_NoActionReturned, 1, 9))
          \/ Includes(reason, S_FailedParseAI)
          \/ Includes(reason, S_FailedParse)
          \/ Includes(reason, S_UnknownAction)

shouldRetry(actions, reasoning) ==
  IF Len(actions) # 1 THEN FALSE
  ELSE IF actions[1].type # "done" THEN FALSE
  ELSE IF actions[1].success THEN FALSE
  ELSE LET reason == IF actions[1].reason # <<>> THEN actions[1].reason ELSE reasoning
       IN \/ Includes(reason, S_NoResponse)
          \/ Includes(reason, S_NoActionReturned)
          \/ Includes(reason, S_FailedParseAI)
          \/ Includes(reason, S_FailedParse)
          \/ Includes(reason, S_UnknownAction)

\* ---- inputs: what the model may reply and what the browser may do ----
RawFoo == [type |-> "foo"]
JsonReply(actions, reasoning) ==
  [kind |-> "json", actions |-> actions, reasoning |-> reasoning]

\* the replies of the driver runs; kind "throw" is a failed API call
DriverReplies ==
  { [kind |-> "throw", message |-> E_Http],
    [kind |-> "none"],
    JsonReply(<<>>, R_Plain),
    JsonReply(<<Click(400, 300)>>, R_Plain),
    JsonReply(<<Click(400, 300), Type(T_Hi)>>, R_Plain),
    JsonReply(<<Type(T_Hi), Done(TRUE, D_Ok), Click(400, 300)>>, R_Plain),
    JsonReply(<<Click(400, 300), Done(TRUE, D_Ok), Type(T_Hi)>>, R_Unfinished),
    JsonReply(<<Done(TRUE, D_Ok)>>, R_Unfinished),
    JsonReply(<<Click(400, 300), Done(FALSE, D_Stuck)>>, R_Plain),
    JsonReply(<<Done(FALSE, D_Stuck)>>, R_Plain),
    JsonReply(<<Done(TRUE, D_Ok)>>, R_Plain) }

\* the replies of the runs that give up: a failing done alone, after other
\* actions, and before other actions
DoneReplies ==
  { JsonReply(<<Click(400, 300)>>, R_Plain),
    JsonReply(<<Click(400, 300), Done(FALSE, D_Stuck)>>, R_Plain),
    JsonReply(<<Click(400, 300), Type(T_Hi), Done(FALSE, D_Stuck), Click(400, 300)>>, R_Plain),
    JsonReply(<<Done(FALSE, D_Stuck), Click(400, 300)>>, R_Plain),
    JsonReply(<<Done(FALSE, D_Stuck)>>, R_Plain),
    JsonReply(<<Done(TRUE, D_Ok)>>, R_Plain) }

\* the replies of the retry runs: every kind of invalid reply
RetryReplies ==
  { [kind |-> "throw", message |-> E_Http],
    [kind |-> "none"],
    [kind |-> "text", text |-> T_Garbage],
    JsonReply(<<>>, R_Plain),
    JsonReply(<<RawFoo>>, R_Plain),
    JsonReply(<<Done(FALSE, <<>>)>>, S_UnknownAction),
    JsonReply(<<Click(400, 300)>>, R_Plain),
    JsonReply(<<Done(TRUE, D_Ok)>>, R_Plain) }

\* the replies of the suite run: one click, success, failure
SuiteReplies ==
  { JsonReply(<<Click(400, 300)>>, R_Plain),
    JsonReply(<<Done(FALSE, D_Stuck)>>, R_Plain),
    JsonReply(<<Done(TRUE, D_Ok)>>, R_Plain) }

\* BrowserExecutor.execute: the action succeeds, fails with an error (a
\* screenshot is captured in both cases), or the capture itself throws
ExecOutcomes ==
  { [kind |-> "ok", error |-> <<>>],
    [kind |-> "error", error |-> E_Timeout],
    [kind |-> "throw", error |-> E_Closed] }

VARIABLES
  configMaxSteps,   \* config.maxSteps as loaded
  optAgentic,       \* options.agentic (--agentic)
  replies,          \* the replies the model may give in this run of the tool
  numTests,         \* testSuite.tests.length
  testIndex,        \* runTestFile: i of the agentic loop, 1-based
  suitePc,          \* runTestFile: "running" | "done"
  summaryRows,      \* runTestFile: summaryRows
  testResults,      \* runTestFile: testResults (the tests kept, with their steps)
  optMaxSteps,      \* AgenticTester.options.maxSteps
  optRetry,         \* AgenticTester.options.retryNoResponse
  lastFailure,      \* AgenticTester.lastFailure
  pc,               \* position in run: "idle" | "ask" | "consume" | "returned"
  steps,            \* run: steps
  actionHistory,    \* run: actionHistory
  pendingActions,   \* run: pendingActions
  pendingReasoning, \* run: pendingReasoning
  result,           \* the value run returns
  attempt,          \* getNextActionWithRetry: attempt
  retryFeedback,    \* getNextActionWithRetry: retryFeedback
  request,          \* the parameters of the latest provider.getNextAction call
  requestCalls,     \* provider calls made by the current getNextActionWithRetry
  providerCalls,    \* provider calls made by the current run
  curReply,         \* the parsed latest reply, before normalizeResult
  curIdx,           \* actions of the current batch already consumed
  codeMode,         \* AgenticTester.codeExecutor is set: run is runCodeMode
  pendingCode,      \* runCodeMode: pendingCode
  codeHistory,      \* runCodeMode: codeHistory
  loopWarnings,     \* runCodeMode: loopWarnings
  finalResponse,    \* runCodeMode: the done response whose final code is run
  cancelSignal,     \* the caller has asked for the run to be cancelled
  opc,              \* runTestFile: "agentic" | "static" | "rewrite" | "verifyRewrite" |
                    \*   "heal" | "replay" | "healRun" | "healSave" | "verifyHeal" | "finished"
  healEnabled,      \* options.heal is not false
  staticResult,     \* runTestFile: staticResult
  currentResult,    \* runTestFile, rewrite tier: currentResult
  rewriteAttempt,   \* runTestFile, rewrite tier: attempt
  rewriteSucceeded, \* runTestFile: rewriteSucceeded
  scriptFile,       \* the contents of <suite>.spec.js
  sidecarFile,      \* the contents of <suite>.steps.json
  analyzeCalls,     \* calls of TestRewriter.analyze made for this suite
  rewriteWrites,    \* writes of the script file made by the rewrite tier
  verifyRuns,       \* runs of the script made by the rewrite tier
  healerCalls,      \* calls of TestHealer.healSuite made for this suite
  failedTestIndex,  \* healSuite: failedTestIndex (the number of tests to replay)
  replayIndex,      \* healSuite: i of the replay loop
  healTestResults,  \* healSuite / healSuiteAgentic: testResults
  healPassed,       \* healSuite / healSuiteAgentic: passed
  healFailed,       \* healSuite / healSuiteAgentic: failed
  tierLog,          \* the recovery tiers started, in order
  healLog,          \* the tests replayed or run after a replay phase or by the healer, in order
  healVerified,     \* runTestFile: verified, the run of the regenerated script
  pageGotos,        \* page.goto(baseUrl) calls of the replay phases and the healer
  runsDir,          \* the directories of zentests/runs, each [suite, stamp]
  runClock,         \* the wall clock, in seconds, as runStaticTest reads it
  replayInput,      \* replaySteps: steps (the saved steps handed in)
  replayPos,        \* replaySteps: position of the for-loop, 1-based
  replayStatus,     \* replaySteps: "idle" | "running" | "returned" | "thrown"
  pageLog,          \* the calls replaySteps has made on the page, in order
  keyCombo,         \* the key combo string handed to page.keyboard.press sites
  pressedKey,       \* what each copy of normalizeKeyCombo made of keyCombo
  clickSteps,       \* the steps run records for executed click actions, in order
  signInput,        \* the actions handed to actionSignature and the repetition guard
  signOutput,       \* their signatures and the guard's verdict
  buildInput,       \* TestBuilder: the tests and their steps
  buildOutput,      \* TestBuilder: the body lines of each test block
  rewriteInput,     \* TestRewriter: the script, the failing test and the returned body
  rewriteOutput     \* TestRewriter: the script written on REWRITE

suiteVars == <<configMaxSteps, optAgentic, replies, numTests, testIndex, suitePc, summaryRows, testResults>>
testerVars == <<optMaxSteps, optRetry, lastFailure>>
runVars == <<pc, steps, actionHistory, pendingActions, pendingReasoning, result>>
retryVars == <<attempt, retryFeedback>>
traceVars == <<request, requestCalls, providerCalls, curReply, curIdx>>
codeVars == <<pendingCode, codeHistory, loopWarnings, finalResponse>>
\* the state outside the driver
orchVars == <<opc, healEnabled, staticResult, currentResult, rewriteAttempt, rewriteSucceeded,
              scriptFile, sidecarFile, analyzeCalls, rewriteWrites, verifyRuns>>
healVars == <<healerCalls, failedTestIndex, replayIndex, healTestResults, healPassed,
              healFailed, tierLog, healLog, healVerified, pageGotos>>
\* the state of the operations modelled on their own
unitVars == <<clickSteps, signInput, signOutput, buildInput, buildOutput, rewriteInput,
              rewriteOutput>>
toolVars == <<runsDir, runClock, replayInput, replayPos, replayStatus, pageLog, keyCombo,
              pressedKey, unitVars>>
extVars == <<cancelSignal, orchVars, healVars, toolVars>>
vars == <<suiteVars, testerVars, runVars, retryVars, traceVars, codeMode, codeVars, extVars>>

\* makeResult
makeResult(success, message, error) ==
  [success |-> success, message |-> message, error |-> error]

MaxStepsError(n) == S_MaxStepsPrefix \o NumToStr(n) \o S_MaxStepsSuffix

\* constructor: options.maxSteps || 50
ctorMaxSteps(configured) ==
  IF configured # 0 THEN configured ELSE DefaultMaxSteps

\* the head of the while loop of run, reached with nSteps recorded steps and
\* nPending pending actions: leave with the max-steps result, or go on to
\* ask the model (nothing pending) or to consume the next pending action
loopHead_Inclusive(cap, nSteps, nPending) ==
  IF nSteps <= cap
  THEN [pc |-> IF nPending = 0 THEN "ask" ELSE "consume", result |-> <<>>]
  ELSE [pc |-> "returned",
        result |-> <<makeResult(FALSE, <<>>, MaxStepsError(cap))>>]

loopHead(cap, nSteps, nPending) ==
  IF nSteps < cap
  THEN [pc |-> IF nPending = 0 THEN "ask" ELSE "consume", result |-> <<>>]
  ELSE [pc |-> "returned",
        result |-> <<makeResult(FALSE, <<>>, MaxStepsError(cap))>>]

\* no static run has left artifacts, nothing is being replayed, no key pressed
UnitsIdle ==
  /\ clickSteps = <<>>
  /\ signInput = <<>>
  /\ signOutput = <<>>
  /\ buildInput = <<>>
  /\ buildOutput = <<>>
  /\ rewriteInput = <<>>
  /\ rewriteOutput = <<>>

ToolsIdle ==
  /\ UnitsIdle
  /\ runsDir = {}
  /\ runClock = 0
  /\ replayInput = <<>>
  /\ replayPos = 0
  /\ replayStatus = "idle"
  /\ pageLog = <<>>
  /\ keyCombo = <<>>
  /\ pressedKey = <<>>

InitCommon ==
  /\ testIndex = 1
  /\ suitePc = "running"
  /\ summaryRows = <<>>
  /\ testResults = <<>>
  /\ optMaxSteps = 0
  /\ optRetry = 0
  /\ lastFailure = <<>>
  /\ pc = "idle"
  /\ steps = <<>>
  /\ actionHistory = <<>>
  /\ pendingActions = <<>>
  /\ pendingReasoning = <<>>
  /\ result = <<>>
  /\ attempt = 0
  /\ retryFeedback = <<>>
  /\ request = <<>>
  /\ requestCalls = 0
  /\ providerCalls = 0
  /\ curReply = <<>>
  /\ curIdx = 0
  /\ pendingCode = <<>>
  /\ codeHistory = <<>>
  /\ loopWarnings = 0
  /\ finalResponse = <<>>
  /\ cancelSignal = FALSE
  /\ opc = "agentic"
  /\ healEnabled = TRUE
  /\ staticResult = <<>>
  /\ currentResult = <<>>
  /\ rewriteAttempt = 0
  /\ rewriteSucceeded = FALSE
  /\ scriptFile = <<>>
  /\ sidecarFile = <<>>
  /\ analyzeCalls = 0
  /\ rewriteWrites = 0
  /\ verifyRuns = 0
  /\ healerCalls = 0
  /\ failedTestIndex = 0
  /\ replayIndex = 0
  /\ healTestResults = <<>>
  /\ healPassed = 0
  /\ healFailed = 0
  /\ tierLog = <<>>
  /\ healLog = <<>>
  /\ healVerified = <<>>
  /\ pageGotos = 0

\* one test, any configured step cap, every reply
Init ==
  /\ configMaxSteps \in 0..MaxConfigSteps
  /\ optAgentic = FALSE
  /\ replies = DriverReplies
  /\ codeMode = FALSE
  /\ numTests = 1
  /\ InitCommon
  /\ ToolsIdle

\* runTestFile, agentic loop: construct the tester for test testIndex and
\* enter run (ensureViewport, navigation) up to the first loop head
StartTest ==
  /\ suitePc = "running"
  /\ pc = "idle"
  /\ testIndex <= numTests
  /\ optMaxSteps' = ctorMaxSteps(configMaxSteps)
  /\ optRetry' = DefaultRetryNoResponse
  /\ lastFailure' = <<>>
  /\ steps' = <<>>
  /\ actionHistory' = <<>>
  /\ pendingActions' = <<>>
  /\ pendingReasoning' = <<>>
  /\ attempt' = 0
  /\ retryFeedback' = <<>>
  /\ request' = <<>>
  /\ requestCalls' = 0
  /\ providerCalls' = 0
  /\ curReply' = <<>>
  /\ curIdx' = 0
  /\ pendingCode' = <<>>
  /\ codeHistory' = <<>>
  /\ loopWarnings' = 0
  /\ finalResponse' = <<>>
  /\ \/ /\ pc' = loopHead(optMaxSteps', 0, 0).pc
        /\ result' = loopHead(optMaxSteps', 0, 0).result
     \/ /\ pc' = "returned"
        /\ result' = <<makeResult(FALSE, <<>>, E_Closed)>>
  /\ UNCHANGED <<suiteVars, codeMode, extVars>>

\* the text sent as lastFailureText: the failure of the last action, else
\* the corrective feedback of a retry, else nothing
failureTextOf(failure, feedback) ==
  IF failure # <<>>
  THEN <<[kind |-> "failure", action |-> failure[1].action, error |-> failure[1].error]>>
  ELSE feedback

\* the screenshot sent: the failure screenshot if there is one, else a fresh
\* capture of the page as it is after the steps recorded so far
screenshotOf(failure, nSteps) ==
  IF failure # <<>> /\ failure[1].screenshot # <<>>
  THEN failure[1].screenshot[1]
  ELSE [src |-> "capture", at |-> nSteps]

\* lastFailure never cleared
clearedFailure_Never(failure) == failure

\* getNextActionWithRetry: lastFailure after the provider has answered
clearedFailure(failure) ==
  IF failure # <<>> /\ failure[1].screenshot # <<>> THEN <<>> ELSE failure

\* getNextActionWithRetry: the feedback text built for the next attempt
retryFeedbackOf(normalized) ==
  LET a == normalized.actions[1]
  IN IF a.type = "done" /\ ~a.success /\ StartsWith(a.reason, S_UnknownAction)
     THEN <<[kind |-> "retry", template |-> "unknown", reason |-> a.reason]>>
     ELSE <<[kind |-> "retry", template |-> "invalid", reason |-> a.reason]>>

\* the retry limit off by one
returnsNow_OffByOne(normalized, att, maxRetries) ==
  ~shouldRetry(normalized.actions, normalized.reasoning) \/ att > maxRetries

\* getNextActionWithRetry: whether this answer is returned to run
returnsNow(normalized, att, maxRetries) ==
  ~shouldRetry(normalized.actions, normalized.reasoning) \/ att >= maxRetries

\* one pass of the while loop of getNextActionWithRetry: one provider call;
\* counted says whether the calls of the run are being counted
AskProvider(counted) ==
  /\ pc = "ask"
  /\ ~codeMode
  /\ \E reply \in replies :
       /\ request' = <<[screenshot |-> screenshotOf(lastFailure, Len(steps)),
                        lastFailureText |-> failureTextOf(lastFailure, retryFeedback)]>>
       /\ requestCalls' = requestCalls + 1
       /\ providerCalls' = IF counted THEN providerCalls + 1 ELSE providerCalls
       /\ IF reply.kind = "throw"
          THEN \* the call rejects: caught by run
               /\ pc' = "returned"
               /\ result' = <<makeResult(FALSE, <<>>, reply.message)>>
               /\ UNCHANGED <<lastFailure, pendingActions, pendingReasoning,
                              attempt, retryFeedback, curReply, curIdx>>
          ELSE LET parsed == parseJsonResponse(reply)
                   normalized == normalizeResult(parsed)
               IN /\ lastFailure' = clearedFailure(lastFailure)
                  /\ curReply' = <<parsed>>
                  /\ curIdx' = 0
                  /\ result' = result
                  /\ IF returnsNow(normalized, attempt, optRetry)
                     THEN /\ pendingActions' = normalized.actions
                          /\ pendingReasoning' = normalized.reasoning
                          /\ pc' = "consume"
                          /\ attempt' = 0
                          /\ retryFeedback' = <<>>
                     ELSE /\ retryFeedback' = retryFeedbackOf(normalized)
                          /\ attempt' = attempt + 1
                          /\ pc' = "ask"
                          /\ UNCHANGED <<pendingActions, pendingReasoning>>
  /\ UNCHANGED <<suiteVars, optMaxSteps, optRetry, steps, actionHistory, codeMode, extVars, codeVars>>

Invoke == AskProvider(FALSE)

\* the same pass, with the provider calls of the run counted
InvokeCounted == AskProvider(TRUE)

\* the batch kept after a failed action
pendingAfter_KeepRest(rest, error) == rest

\* run, after execute returned: the pending actions that remain
pendingAfter(rest, error) == IF error # <<>> THEN <<>> ELSE rest

\* run, after execute returned: lastFailure
failureAfter(failure, action, error, shot) ==
  IF error # <<>>
  THEN <<[error |-> error, screenshot |-> <<shot>>, action |-> action]>>
  ELSE failure

\* run: take the next pending action; end the run on no action, on the
\* repetition guard or on done; else execute it, record the step and go to
\* the loop head
Consume ==
  /\ pc = "consume"
  /\ ~codeMode
  /\ requestCalls' = 0
  /\ providerCalls' = providerCalls
  /\ request' = <<>>
  /\ IF Len(pendingActions) = 0
     THEN /\ pc' = "returned"
          /\ result' = <<makeResult(FALSE, S_NoActionsFromAI, <<>>)>>
          /\ UNCHANGED <<steps, actionHistory, pendingActions, lastFailure, curIdx, curReply>>
     ELSE LET action == Head(pendingActions)
              rest == Tail(pendingActions)
          IN IF action.type # "done" /\ isRepeatedAction(actionHistory, action, RepeatCount)
             THEN /\ pc' = "returned"
                  /\ result' = <<makeResult(FALSE, S_Repeated, <<>>)>>
                  /\ pendingActions' = rest
                  /\ UNCHANGED <<steps, actionHistory, lastFailure, curIdx, curReply>>
             ELSE IF action.type = "done"
             THEN /\ pc' = "returned"
                  /\ result' = <<makeResult(action.success, action.reason, <<>>)>>
                  /\ pendingActions' = rest
                  /\ UNCHANGED <<steps, actionHistory, lastFailure, curIdx, curReply>>
             ELSE /\ Len(steps) < MaxConfigSteps
                  /\ \E out \in ExecOutcomes :
                       IF out.kind = "throw"
                       THEN /\ pc' = "returned"
                            /\ result' = <<makeResult(FALSE, <<>>, out.error)>>
                            /\ pendingActions' = rest
                            /\ UNCHANGED <<steps, actionHistory, lastFailure, curIdx, curReply>>
                       ELSE LET shot == [src |-> "execute", at |-> Len(steps) + 1]
                                newSteps == Append(steps,
                                  [action |-> action, reasoning |-> pendingReasoning,
                                   error |-> out.error])
                                newPending == pendingAfter(rest, out.error)
                                head == loopHead(optMaxSteps, Len(newSteps), Len(newPending))
                            IN /\ steps' = newSteps
                               /\ actionHistory' = Append(actionHistory,
                                    [action |-> action, reasoning |-> pendingReasoning,
                                     error |-> out.error])
                               /\ lastFailure' = failureAfter(lastFailure, action, out.error, shot)
                               /\ pendingActions' = newPending
                               /\ curIdx' = IF Len(newPending) = 0 THEN 0 ELSE curIdx + 1
                               /\ curReply' = IF Len(newPending) = 0 THEN <<>> ELSE curReply
                               /\ pc' = head.pc
                               /\ result' = head.result
  /\ UNCHANGED <<suiteVars, optMaxSteps, optRetry, pendingReasoning,
                 attempt, retryFeedback, codeMode, extVars, codeVars>>

\* runTestFile, agentic loop: the index of the test run next; past the end
\* when the loop is left (break at a failed test, or the suite is finished)
nextTestIndex_NoBreak(success, i, n) == i + 1

nextTestIndex(success, i, n) == IF success THEN i + 1 ELSE n + 1

\* TestBuilder.loadSuiteSteps: the sidecar, or nothing when it cannot be read
loadSuiteSteps(file) == IF file.readable THEN <<file>> ELSE <<>>

\* runTestFile, prologue: the sidecar as loaded (nothing when there is no
\* script, no sidecar, or the sidecar cannot be read)
loadedSteps(script, sidecar) ==
  IF script # <<>> /\ sidecar # <<>> THEN loadSuiteSteps(sidecar) ELSE <<>>

\* the tests of the suite (named 1..n) with no entry in the sidecar
missingTests(saved, n) ==
  {i \in 1..n : \A j \in 1..Len(saved.tests) : saved.tests[j].name # i}

\* runTestFile, prologue: savedStepsData, set when the sidecar was loaded
\* and lacks a test of the suite
savedStepsData(script, sidecar, n) ==
  LET savedSteps == loadedSteps(script, sidecar)
  IN IF savedSteps # <<>> /\ missingTests(savedSteps[1], n) # {}
     THEN savedSteps ELSE <<>>

\* runTestFile, prologue: firstMissingTestIndex (0-based; 0 when unset)
firstMissingTestIndex(script, sidecar, n) ==
  LET data == savedStepsData(script, sidecar, n)
  IN IF data = <<>> THEN 0
     ELSE (CHOOSE i \in missingTests(data[1], n) :
             \A j \in missingTests(data[1], n) : i <= j) - 1

\* runTestFile: canPartialReplay of the agentic branch
canPartialReplay(script, sidecar, n) ==
  savedStepsData(script, sidecar, n) # <<>> /\ firstMissingTestIndex(script, sidecar, n) > 0

keptResults_Always(results, success, test, recorded) ==
  Append(results, [test |-> test, steps |-> recorded])

\* the agentic loops, after tester.run returned: `if (result.success)
\* testResults.push({ test, steps: result.steps })`
keptResults(results, success, test, recorded) ==
  IF success THEN Append(results, [test |-> test, steps |-> recorded]) ELSE results

skipNav_Never(partial, i) == FALSE

\* runTestFile, agentic loop: skipNav for the test at 0-based index i
\* (isFirstTest is true only before the first run of a suite not replayed)
skipNav(partial, i) == IF partial THEN TRUE ELSE i > 0

\* runTestFile, after tester.run returned: add the summary row; keep the
\* steps of a passed test and go on, or stop the suite at a failed test
Returned ==
  /\ pc = "returned"
  /\ suitePc = "running"
  /\ opc = "agentic"
  /\ summaryRows' = Append(summaryRows,
       [test |-> testIndex, passed |-> result[1].success, actionCount |-> Len(steps)])
  /\ testResults' = keptResults(testResults, result[1].success, testIndex, steps)
  /\ healLog' = Append(healLog,
       [test |-> testIndex, kind |-> "run",
        skipNavigation |-> skipNav(canPartialReplay(scriptFile, sidecarFile, numTests),
                                   testIndex - 1),
        success |-> result[1].success])
  /\ testIndex' = nextTestIndex(result[1].success, testIndex, numTests)
  /\ suitePc' = IF testIndex' <= numTests THEN "running" ELSE "done"
  /\ pc' = "idle"
  /\ UNCHANGED <<configMaxSteps, optAgentic, replies, numTests, testerVars, steps, actionHistory,
                 pendingActions, pendingReasoning, result, retryVars, traceVars,
                 codeMode, cancelSignal, toolVars, orchVars, codeVars,
                 healerCalls, failedTestIndex, replayIndex, healTestResults, healPassed,
                 healFailed, tierLog, healVerified, pageGotos>>


\* ---- code mode: AgenticTester.runCodeMode ----
S_StuckInLoop == <<"S","t","u","c","k"," ","i","n"," ","a"," ","l","o","o","p"," ","w","i","t","h","o","u","t"," ","p","r","o","g","r","e","s","s">>
S_NoCodeFromAI == <<"N","o"," ","c","o","d","e"," ","r","e","t","u","r","n","e","d"," ","f","r","o","m"," ","A","I">>
S_FailedToParse == <<"F","a","i","l","e","d"," ","t","o"," ","p","a","r","s","e">>
S_NoResponseShort == <<"N","o"," ","r","e","s","p","o","n","s","e">>
\* the hint given to the model at the first loop warning (its first sentence)
S_LoopHint == <<"Y","o","u"," ","a","r","e"," ","r","e","p","e","a","t","i","n","g"," ","t","h","e"," ","s","a","m","e"," ","a","c","t","i","o","n","s"," ","i","n"," ","a"," ","l","o","o","p",".">>

\* code statements the model writes
K_A == <<"a">>
K_APadded == <<" ","a">>
K_B == <<"b">>

\* String.prototype.trim
RECURSIVE trim(_)
trim(s) ==
  IF s = <<>> THEN s
  ELSE IF Head(s) = " " THEN trim(Tail(s))
  ELSE IF s[Len(s)] = " " THEN trim(SubSeq(s, 1, Len(s) - 1))
  ELSE s

\* Array.prototype.filter
RECURSIVE filterNonBlank(_)
filterNonBlank(code) ==
  IF code = <<>> THEN <<>>
  ELSE IF Len(trim(Head(code))) > 0 THEN <<Head(code)>> \o filterNonBlank(Tail(code))
  ELSE filterNonBlank(Tail(code))

CodeReply(code, done, success) ==
  [kind |-> "json", code |-> code, reasoning |-> R_Plain, done |-> done,
   success |-> success, reason |-> <<>>]

\* the replies of the code-mode runs
CodeReplies ==
  { [kind |-> "throw", message |-> E_Http],
    [kind |-> "none"],
    CodeReply(<<>>, FALSE, FALSE),
    CodeReply(<<K_A>>, FALSE, FALSE),
    CodeReply(<<K_APadded, K_B>>, FALSE, FALSE),
    CodeReply(<<K_A, K_B>>, TRUE, TRUE),
    CodeReply(<<>>, TRUE, TRUE),
    CodeReply(<<>>, TRUE, FALSE) }

\* parseCodeResponse.fail
parseCodeFail(reason) ==
  [code |-> <<>>, reasoning |-> reason, done |-> TRUE, success |-> FALSE, reason |-> reason]

\* parseCodeResponse, on the same kinds of content as parseJsonResponse
parseCodeResponse(content) ==
  CASE content.kind = "none" -> parseCodeFail(S_NoResponse)
    [] content.kind = "text" -> parseCodeFail(S_FailedParsePrefix \o content.text)
    [] content.kind = "json" ->
         [code |-> filterNonBlank(content.code),
          reasoning |-> IF content.reasoning # <<>> THEN content.reasoning
                        ELSE S_NoReasoning,
          done |-> content.done,
          success |-> content.done /\ content.success,
          reason |-> content.reason]

\* getNextCodeWithRetry: isParseFailure
isParseFailure(parsed) ==
  /\ parsed.done
  /\ Len(parsed.code) = 0
  /\ \/ Includes(parsed.reasoning, S_FailedToParse)
     \/ Includes(parsed.reasoning, S_NoResponseShort)

\* the number of distinct elements of a sequence
distinctCount(seq) == Cardinality({seq[i] : i \in 1..Len(seq)})

isRepeatedCode(history, code, repeatCount) ==
  IF Len(history) < repeatCount THEN FALSE
  ELSE \/ \A i \in (Len(history) - repeatCount + 1)..Len(history) :
             trim(history[i].code) = trim(code)
       \/ /\ Len(history) >= repeatCount * 2
          /\ LET codes == [i \in 1..(repeatCount * 2 + 1) |->
                             IF i <= repeatCount * 2
                             THEN trim(history[Len(history) - repeatCount * 2 + i].code)
                             ELSE trim(code)]
             IN distinctCount(codes) <= 2

\* the text sent as lastFailureText in code mode
codeFailureTextOf(failure, feedback) ==
  IF failure # <<>>
  THEN <<[kind |-> "failure", code |-> failure[1].code, error |-> failure[1].error]>>
  ELSE feedback

\* a done result that fails the run whatever the response reports
doneResult_Failed(response) ==
  makeResult(FALSE,
             IF response.reason # <<>> THEN response.reason ELSE response.reasoning,
             <<>>)

\* runCodeMode: the result returned for a done response
doneResult(response) ==
  makeResult(response.success,
             IF response.reason # <<>> THEN response.reason ELSE response.reasoning,
             <<>>)

\* one pass of the while loop of getNextCodeWithRetry, and, when it returns,
\* what runCodeMode does with the response before executing anything
InvokeCode ==
  /\ pc = "ask"
  /\ codeMode
  /\ \E reply \in replies :
       /\ request' = <<[screenshot |-> screenshotOf(lastFailure, Len(steps)),
                        lastFailureText |-> codeFailureTextOf(lastFailure, retryFeedback)]>>
       /\ requestCalls' = requestCalls + 1
       /\ providerCalls' = providerCalls
       /\ IF reply.kind = "throw"
          THEN /\ pc' = "returned"
               /\ result' = <<makeResult(FALSE, <<>>, reply.message)>>
               /\ UNCHANGED <<lastFailure, pendingCode, pendingReasoning, attempt,
                              retryFeedback, finalResponse>>
          ELSE LET parsed == parseCodeResponse(reply)
               IN /\ lastFailure' = clearedFailure(lastFailure)
                  /\ IF ~isParseFailure(parsed) \/ attempt >= optRetry
                     THEN /\ attempt' = 0
                          /\ retryFeedback' = <<>>
                          /\ IF parsed.done
                             THEN /\ pendingCode' = parsed.code
                                  /\ finalResponse' = <<parsed>>
                                  /\ pendingReasoning' = pendingReasoning
                                  /\ IF Len(parsed.code) = 0
                                     THEN pc' = "returned" /\ result' = <<doneResult(parsed)>>
                                     ELSE pc' = "final" /\ result' = result
                             ELSE IF Len(parsed.code) = 0
                             THEN /\ pc' = "returned"
                                  /\ result' = <<makeResult(FALSE, S_NoCodeFromAI, <<>>)>>
                                  /\ UNCHANGED <<pendingCode, pendingReasoning, finalResponse>>
                             ELSE /\ pendingCode' = parsed.code
                                  /\ pendingReasoning' = parsed.reasoning
                                  /\ pc' = "consume"
                                  /\ result' = result
                                  /\ finalResponse' = finalResponse
                     ELSE /\ retryFeedback' = <<[kind |-> "retry", template |-> "code",
                                                 reason |-> <<>>]>>
                          /\ attempt' = attempt + 1
                          /\ pc' = "ask"
                          /\ result' = result
                          /\ UNCHANGED <<pendingCode, pendingReasoning, finalResponse>>
  /\ UNCHANGED <<suiteVars, optMaxSteps, optRetry, steps, actionHistory, pendingActions,
                 curReply, curIdx, codeMode, extVars, codeHistory, loopWarnings>>

\* runCodeMode, done response: execute and record the next final statement;
\* after the last one return the reported outcome
FinalExec ==
  /\ pc = "final"
  /\ codeMode
  /\ \E out \in ExecOutcomes :
       IF out.kind = "throw"
       THEN /\ pc' = "returned"
            /\ result' = <<makeResult(FALSE, <<>>, out.error)>>
            /\ UNCHANGED <<steps, codeHistory, pendingCode>>
       ELSE /\ steps' = Append(steps, [code |-> Head(pendingCode),
                                       reasoning |-> finalResponse[1].reasoning,
                                       error |-> out.error])
            /\ codeHistory' = Append(codeHistory, [code |-> Head(pendingCode),
                                                   reasoning |-> finalResponse[1].reasoning,
                                                   error |-> out.error])
            /\ pendingCode' = Tail(pendingCode)
            /\ IF Len(pendingCode) = 1
               THEN pc' = "returned" /\ result' = <<doneResult(finalResponse[1])>>
               ELSE pc' = "final" /\ result' = result
  /\ UNCHANGED <<suiteVars, testerVars, actionHistory, pendingActions, pendingReasoning,
                 retryVars, traceVars, codeMode, extVars, loopWarnings, finalResponse>>

\* runCodeMode: take the next pending statement; on a detected loop warn the
\* model once and give up the second time; else execute it, record the step
\* and go to the loop head
ConsumeCode ==
  /\ pc = "consume"
  /\ codeMode
  /\ requestCalls' = 0
  /\ providerCalls' = providerCalls
  /\ request' = <<>>
  /\ LET code == Head(pendingCode)
         rest == Tail(pendingCode)
     IN IF isRepeatedCode(codeHistory, code, RepeatCount)
        THEN /\ loopWarnings' = loopWarnings + 1
             /\ UNCHANGED <<steps, codeHistory>>
             /\ IF loopWarnings + 1 >= 2
                THEN /\ pc' = "returned"
                     /\ result' = <<makeResult(FALSE, S_StuckInLoop, <<>>)>>
                     /\ pendingCode' = rest
                     /\ lastFailure' = lastFailure
                ELSE /\ pendingCode' = <<>>
                     /\ lastFailure' = <<[error |-> S_LoopHint,
                                          screenshot |-> <<[src |-> "capture", at |-> Len(steps)]>>,
                                          code |-> <<>>]>>
                     /\ pc' = loopHead(optMaxSteps, Len(steps), 0).pc
                     /\ result' = loopHead(optMaxSteps, Len(steps), 0).result
        ELSE /\ Len(steps) < MaxConfigSteps
             /\ loopWarnings' = loopWarnings
             /\ \E out \in ExecOutcomes :
                  IF out.kind = "throw"
                  THEN /\ pc' = "returned"
                       /\ result' = <<makeResult(FALSE, <<>>, out.error)>>
                       /\ pendingCode' = rest
                       /\ UNCHANGED <<steps, codeHistory, lastFailure>>
                  ELSE LET shot == [src |-> "execute", at |-> Len(steps) + 1]
                           entry == [code |-> code, reasoning |-> pendingReasoning,
                                     error |-> out.error]
                           newPending == pendingAfter(rest, out.error)
                           head == loopHead(optMaxSteps, Len(steps) + 1, Len(newPending))
                       IN /\ steps' = Append(steps, entry)
                          /\ codeHistory' = Append(codeHistory, entry)
                          /\ lastFailure' =
                               IF out.error # <<>>
                               THEN <<[error |-> out.error, screenshot |-> <<shot>>,
                                       code |-> code]>>
                               ELSE lastFailure
                          /\ pendingCode' = newPending
                          /\ pc' = head.pc
                          /\ result' = head.result
  /\ UNCHANGED <<suiteVars, optMaxSteps, optRetry, actionHistory, pendingActions,
                 pendingReasoning, retryVars, curReply, curIdx, codeMode, extVars, finalResponse>>


Next == StartTest \/ Invoke \/ Consume \/ Returned

Spec == Init /\ [][Next]_vars

\* the suite of NumTests tests with the default configuration
InitSuite ==
  /\ configMaxSteps = MaxConfigSteps
  /\ optAgentic = FALSE
  /\ replies = SuiteReplies
  /\ codeMode = FALSE
  /\ numTests = NumTests
  /\ InitCommon
  /\ ToolsIdle

SpecSuite == InitSuite /\ [][Next]_vars

\* one test, any configured step cap, the invalid replies
InitRetry ==
  /\ configMaxSteps \in 0..MaxConfigSteps
  /\ optAgentic = FALSE
  /\ replies = RetryReplies
  /\ codeMode = FALSE
  /\ numTests = 1
  /\ InitCommon
  /\ ToolsIdle

SpecRetry == InitRetry /\ [][Next]_vars

\* one test, any configured step cap, the replies that give up
InitDone ==
  /\ configMaxSteps \in 0..MaxConfigSteps
  /\ optAgentic = FALSE
  /\ replies = DoneReplies
  /\ codeMode = FALSE
  /\ numTests = 1
  /\ InitCommon
  /\ ToolsIdle

SpecDone == InitDone /\ [][Next]_vars

\* one test with a configured step cap and the retry replies, the provider calls
\* counted; the provider answers or fails, and the browser returns
InitCalls ==
  /\ configMaxSteps \in 1..MaxConfigSteps
  /\ optAgentic = FALSE
  /\ replies = RetryReplies
  /\ codeMode = FALSE
  /\ numTests = 1
  /\ InitCommon
  /\ ToolsIdle

NextCalls == StartTest \/ InvokeCounted \/ Consume \/ Returned

SpecCalls == InitCalls /\ [][NextCalls]_vars /\ WF_vars(NextCalls)

\* one test, any configured step cap, in action mode or in code mode
InitModes ==
  /\ configMaxSteps \in 0..MaxConfigSteps
  /\ optAgentic = FALSE
  /\ codeMode \in BOOLEAN
  /\ replies = IF codeMode THEN CodeReplies ELSE DriverReplies
  /\ numTests = 1
  /\ InitCommon
  /\ ToolsIdle

NextModes == Next \/ InvokeCode \/ FinalExec \/ ConsumeCode

SpecModes == InitModes /\ [][NextModes]_vars

\* the caller asks for cancellation while a run is under way; run takes no
\* signal and no action of the driver reads it
Cancel ==
  /\ pc \in {"ask", "consume"}
  /\ ~cancelSignal
  /\ cancelSignal' = TRUE
  /\ UNCHANGED <<suiteVars, testerVars, runVars, retryVars, traceVars, codeMode, codeVars,
                 orchVars, healVars, toolVars>>

NextCancel == Next \/ Cancel

\* one test in action mode, with a caller that may cancel
SpecCancel == Init /\ [][NextCancel]_vars

\* ---- runTestFile: the static run and the healing pipeline ----
RewriterMaxAttempts == 3

\* the steps saved for a test by an earlier run
SavedSteps(name) ==
  <<[action |-> Type(T_Hi), reasoning |-> R_Plain, error |-> <<>>]>>

\* TestBuilder.generateSuite: one anchored block per result, its body
\* generated from the steps of that result
generateSuite(results) ==
  [kind |-> "suite",
   blocks |-> [i \in 1..Len(results) |->
                 [name |-> results[i].test,
                  body |-> [from |-> "steps", steps |-> results[i].steps],
                  anchored |-> TRUE]]]

\* TestBuilder.saveSuiteSteps: {tests: [{name, steps}]}
saveSuiteSteps(results) ==
  [readable |-> TRUE,
   tests |-> [i \in 1..Len(results) |->
                [name |-> results[i].test, steps |-> results[i].steps]]]

\* the results of the suite as saved by an earlier run of n tests
SavedResults(n) == [i \in 1..n |-> [test |-> i, steps |-> SavedSteps(i)]]

\* the script as saved, or as re-indented by hand since
ScriptAsSaved(n, indented) ==
  [kind |-> "suite",
   blocks |-> [i \in 1..n |->
                 [name |-> i,
                  body |-> [from |-> "steps", steps |-> SavedSteps(i)],
                  anchored |-> indented]]]

\* runStaticTest on a script: passed, or failed with the name of the failing
\* test of the script (0: none reported) and with or without an error
\* message; a file that holds no test block cannot pass
StaticOutcomes(file) ==
  IF file.kind # "suite"
  THEN { [passed |-> FALSE, failedTestName |-> 0, hasMessage |-> FALSE] }
  ELSE { [passed |-> TRUE, failedTestName |-> 0, hasMessage |-> FALSE],
         [passed |-> FALSE, failedTestName |-> 0, hasMessage |-> FALSE] }
       \cup { [passed |-> FALSE, failedTestName |-> file.blocks[i].name, hasMessage |-> m] :
                i \in 1..Len(file.blocks), m \in BOOLEAN }

\* what the rewriter's model may answer; kind "throw" is a failed API call
RewriterReplies ==
  { [kind |-> "throw"],
    [kind |-> "text"],
    [kind |-> "json", decision |-> "REWRITE", hasBody |-> TRUE],
    [kind |-> "json", decision |-> "REWRITE", hasBody |-> FALSE],
    [kind |-> "json", decision |-> "AGENTIC", hasBody |-> FALSE] }

\* extractTestBlock: the index of the first block matching the pattern
\* anchored to the test name, 0 when nothing matches
\* (the script by its blocks; extractTestBlockText has the brace counting
\* on the text)
extractTestBlock(file, testName) ==
  IF file.kind = "suite"
     /\ \E i \in 1..Len(file.blocks) :
          file.blocks[i].name = testName /\ file.blocks[i].anchored
  THEN CHOOSE i \in 1..Len(file.blocks) :
         /\ file.blocks[i].name = testName /\ file.blocks[i].anchored
         /\ \A j \in 1..(i - 1) :
              ~(file.blocks[j].name = testName /\ file.blocks[j].anchored)
  ELSE 0

\* TestRewriter.parseResponse; rewrittenCode holds the new test body
parseResponse(reply) ==
  IF reply.kind = "json" /\ reply.decision = "REWRITE" /\ reply.hasBody
  THEN [decision |-> "REWRITE", rewrittenCode |-> <<[kind |-> "text", body |-> [from |-> "rewriter"]]>>]
  ELSE [decision |-> "AGENTIC", rewrittenCode |-> <<>>]

\* TestRewriter.analyze after the model has answered: a REWRITE body is
\* spliced into the file when the block was found, else left as it is
analyze(file, testName, reply) ==
  LET testBlock == extractTestBlock(file, testName)
      analysis == parseResponse(reply)
  IN IF analysis.decision = "REWRITE" /\ analysis.rewrittenCode # <<>> /\ testBlock # 0
     THEN [decision |-> "REWRITE",
           rewrittenCode |->
             <<[kind |-> "suite",
                blocks |-> [file.blocks EXCEPT ![testBlock] =
                              [name |-> testName,
                               body |-> analysis.rewrittenCode[1].body,
                               anchored |-> TRUE]]]>>]
     ELSE analysis

\* summaryRows after one row per test of the suite has been pushed
pushRows(rows, n, passedNames) ==
  rows \o [i \in 1..n |-> [test |-> i, passed |-> (i \in passedNames), actionCount |-> 0]]

\* one attempt too many
rewriteHead_Inclusive(attemptsMade, maxAttempts) ==
  IF attemptsMade <= maxAttempts THEN "rewrite" ELSE "heal"

\* the rewrite loop never entered
rewriteHead_Skip(attemptsMade, maxAttempts) == "heal"

\* the head of the while loop of the rewrite tier, and where it leaves to
rewriteHead(attemptsMade, maxAttempts) ==
  IF attemptsMade < maxAttempts THEN "rewrite" ELSE "heal"

\* what runTestFile does not touch before the healer starts
driverVars == <<configMaxSteps, optAgentic, replies, numTests, testIndex, suitePc, testResults,
                testerVars, runVars, retryVars, traceVars, codeMode, codeVars, cancelSignal, toolVars>>

\* runTestFile: run the saved script; report on a pass or with healing
\* disabled, else enter the rewrite tier (failing test and message known)
\* or the healer
StaticRun ==
  /\ opc = "static"
  /\ \E out \in StaticOutcomes(scriptFile) :
       /\ staticResult' = <<out>>
       /\ IF out.passed
          THEN /\ summaryRows' = pushRows(summaryRows, numTests, 1..numTests)
               /\ opc' = "finished"
               /\ currentResult' = currentResult
          ELSE IF ~healEnabled
          THEN /\ summaryRows' = pushRows(summaryRows, numTests, {})
               /\ opc' = "finished"
               /\ currentResult' = currentResult
          ELSE IF out.failedTestName # 0 /\ out.hasMessage
          THEN /\ opc' = rewriteHead(0, RewriterMaxAttempts)
               /\ currentResult' = <<out>>
               /\ summaryRows' = summaryRows
          ELSE /\ opc' = "heal"
               /\ UNCHANGED <<currentResult, summaryRows>>
  /\ tierLog' = IF opc' = "rewrite" THEN Append(tierLog, "rewrite") ELSE tierLog
  /\ UNCHANGED <<driverVars, healEnabled, rewriteAttempt, rewriteSucceeded, scriptFile,
                 sidecarFile, analyzeCalls, rewriteWrites, verifyRuns, healerCalls,
                 failedTestIndex, replayIndex, healTestResults, healPassed, healFailed,
                 healLog, healVerified, pageGotos>>

\* rewrite tier, one pass of the loop up to the write: consult the rewriter
\* on the current contents of the script; leave for the healer on AGENTIC or
\* on an exception, else write what analyze returned over the script
RewriteAnalyze ==
  /\ opc = "rewrite"
  /\ rewriteAttempt' = rewriteAttempt + 1
  /\ analyzeCalls' = analyzeCalls + 1
  /\ IF currentResult[1].failedTestName = 0
     THEN \* extractTestBlock throws on an undefined name
          /\ opc' = "heal"
          /\ UNCHANGED <<scriptFile, rewriteWrites>>
     ELSE \E reply \in RewriterReplies :
            IF reply.kind = "throw"
            THEN /\ opc' = "heal"
                 /\ UNCHANGED <<scriptFile, rewriteWrites>>
            ELSE LET analysis == analyze(scriptFile, currentResult[1].failedTestName, reply)
                 IN IF analysis.decision = "AGENTIC"
                    THEN /\ opc' = "heal"
                         /\ UNCHANGED <<scriptFile, rewriteWrites>>
                    ELSE /\ scriptFile' = analysis.rewrittenCode[1]
                         /\ rewriteWrites' = rewriteWrites + 1
                         /\ opc' = "verifyRewrite"
  /\ UNCHANGED <<driverVars, summaryRows, healEnabled, staticResult, currentResult,
                 rewriteSucceeded, sidecarFile, verifyRuns, healVars>>

\* rewrite tier, after the write: run the whole script; a pass leaves the
\* loop with every test reported passed, a failure becomes the current
\* result of the next pass
RewriteVerify ==
  /\ opc = "verifyRewrite"
  /\ verifyRuns' = verifyRuns + 1
  /\ \E out \in StaticOutcomes(scriptFile) :
       IF out.passed
       THEN /\ summaryRows' = pushRows(summaryRows, numTests, 1..numTests)
            /\ rewriteSucceeded' = TRUE
            /\ opc' = "heal"
            /\ currentResult' = currentResult
       ELSE /\ currentResult' = <<out>>
            /\ opc' = rewriteHead(rewriteAttempt, RewriterMaxAttempts)
            /\ UNCHANGED <<summaryRows, rewriteSucceeded>>
  /\ UNCHANGED <<driverVars, healEnabled, staticResult, rewriteAttempt, scriptFile,
                 sidecarFile, analyzeCalls, rewriteWrites, healVars>>

\* Array.prototype.findIndex of a test name in the suite (the tests of a
\* suite are named 1..n), 0-based, -1 when absent
suiteIndexOf(name, n) == IF name \in 1..n THEN name - 1 ELSE 0 - 1

\* runTestFile: the failedTestIndex computed for the healer
healFailedIndex(static, saved, n) ==
  IF static.failedTestName # 0 /\ saved # <<>> /\ suiteIndexOf(static.failedTestName, n) >= 0
  THEN suiteIndexOf(static.failedTestName, n)
  ELSE 0

\* savedSteps.tests.find by name: the position of the entry, 0 when absent
findSaved(saved, name) ==
  IF \E i \in 1..Len(saved.tests) : saved.tests[i].name = name
  THEN CHOOSE i \in 1..Len(saved.tests) :
         /\ saved.tests[i].name = name
         /\ \A j \in 1..(i - 1) : saved.tests[j].name # name
  ELSE 0

\* replaySteps: the steps replayed on the page (steps that failed when
\* recorded are skipped)
replayedSteps(saved) == SelectSeq(saved, LAMBDA s : s.error = <<>>)

\* replaySteps returns, or a replayed action throws
ReplayOutcomes == {"ok", "throw"}

healNextIndex_NoBreak(success, i, n) == i + 1

\* healSuite / healSuiteAgentic, agentic loop: the index of the test run
\* next; past the end when the loop is left
healNextIndex(success, i, n) == IF success THEN i + 1 ELSE n + 1

healerRuns_Always(succeeded) == TRUE

replayFallback_Resumes(results, replayed) ==
  [results |-> results, next |-> replayed + 1, gotos |-> 0]

\* a replay threw, or a test has no saved steps: the results kept so far are
\* dropped, the page is navigated to the base URL once more, and the agentic
\* loop starts at the first test (healSuiteAgentic; in runTestFile
\* testResults.length = 0 and agenticStartIndex = 0)
replayFallback(results, replayed) ==
  [results |-> <<>>, next |-> 1, gotos |-> 1]

\* runTestFile after the rewrite tier: `if (!rewriteSucceeded)`
healerRuns(succeeded) == ~succeeded

\* runTestFile after the rewrite tier, and the prologue of healSuite: after
\* a verified rewrite nothing more is done; else load the sidecar, find the
\* failed test, navigate, and start with the replay of the tests before it
\* or, when nothing can be replayed, with the agentic loop at the first test
HealStart ==
  /\ opc = "heal"
  /\ IF healerRuns(rewriteSucceeded)
     THEN /\ LET saved == loadSuiteSteps(sidecarFile)
                 idx == healFailedIndex(staticResult[1], saved, numTests)
                 canReplay == saved # <<>> /\ idx > 0
             IN /\ failedTestIndex' = IF canReplay THEN idx ELSE 0
                /\ IF canReplay
                   THEN /\ opc' = "replay"
                        /\ tierLog' = Append(tierLog, "replay")
                        /\ UNCHANGED <<testIndex, suitePc>>
                   ELSE /\ opc' = "healRun"
                        /\ tierLog' = Append(tierLog, "agentic")
                        /\ testIndex' = 1
                        /\ suitePc' = "running"
          /\ healerCalls' = healerCalls + 1
          /\ pageGotos' = pageGotos + 1
          /\ replayIndex' = 0
          /\ healTestResults' = <<>>
          /\ healPassed' = 0
          /\ healFailed' = 0
     ELSE /\ opc' = "finished"
          /\ UNCHANGED <<testIndex, suitePc, failedTestIndex, tierLog, healerCalls,
                         replayIndex, healTestResults, healPassed, healFailed, pageGotos>>
  /\ UNCHANGED <<configMaxSteps, optAgentic, replies, numTests, summaryRows, testResults, testerVars,
                 runVars, retryVars, traceVars, codeMode, codeVars, cancelSignal, toolVars,
                 healEnabled, staticResult, currentResult, rewriteAttempt, rewriteSucceeded,
                 scriptFile, sidecarFile, analyzeCalls, rewriteWrites, verifyRuns,
                 healLog, healVerified>>

\* healSuite, one pass of the replay loop: replay the saved steps of the next
\* test and keep them as its result; when its steps are missing or the
\* replay throws, start over with healSuiteAgentic at the first test
HealReplay ==
  /\ opc = "replay"
  /\ LET test == replayIndex + 1
         saved == loadSuiteSteps(sidecarFile)[1]
         k == findSaved(saved, test)
     IN \E out \in ReplayOutcomes :
          IF k = 0 \/ out = "throw"
          THEN /\ healTestResults' = replayFallback(healTestResults, replayIndex).results
               /\ healPassed' = Len(healTestResults')
               /\ healFailed' = 0
               /\ opc' = "healRun"
               /\ tierLog' = Append(tierLog, "agentic")
               /\ testIndex' = replayFallback(healTestResults, replayIndex).next
               /\ pageGotos' = pageGotos + replayFallback(healTestResults, replayIndex).gotos
               /\ suitePc' = "running"
               /\ UNCHANGED <<replayIndex, healLog>>
          ELSE /\ healPassed' = healPassed + 1
               /\ healTestResults' = Append(healTestResults,
                    [test |-> test, steps |-> saved.tests[k].steps])
               /\ healLog' = Append(healLog,
                    [test |-> test, kind |-> "replay",
                     replayed |-> replayedSteps(saved.tests[k].steps)])
               /\ replayIndex' = replayIndex + 1
               /\ healFailed' = healFailed
               /\ tierLog' = tierLog
               /\ pageGotos' = pageGotos
               /\ IF replayIndex + 1 < failedTestIndex
                  THEN opc' = "replay" /\ UNCHANGED <<testIndex, suitePc>>
                  ELSE /\ opc' = "healRun"
                       /\ testIndex' = failedTestIndex + 1
                       /\ suitePc' = "running"
  /\ UNCHANGED <<configMaxSteps, optAgentic, replies, numTests, summaryRows, testResults, testerVars,
                 runVars, retryVars, traceVars, codeMode, codeVars, cancelSignal, toolVars,
                 healEnabled, staticResult, currentResult, rewriteAttempt, rewriteSucceeded,
                 scriptFile, sidecarFile, analyzeCalls, rewriteWrites, verifyRuns,
                 healerCalls, failedTestIndex, healVerified>>

\* healSuite / healSuiteAgentic, after tester.run(test, {skipNavigation: true})
\* returned: keep the steps of a passed test and go on, or stop at a failed
\* test; after the loop the healer returns to runTestFile
HealReturned ==
  /\ pc = "returned"
  /\ opc = "healRun"
  /\ LET success == result[1].success
     IN /\ healTestResults' = keptResults(healTestResults, success, testIndex, steps)
        /\ healPassed' = IF success THEN healPassed + 1 ELSE healPassed
        /\ healFailed' = IF success THEN healFailed ELSE healFailed + 1
        /\ healLog' = Append(healLog,
             [test |-> testIndex, kind |-> "run", skipNavigation |-> TRUE, success |-> success])
        /\ testIndex' = healNextIndex(success, testIndex, numTests)
  /\ suitePc' = IF testIndex' <= numTests THEN "running" ELSE "done"
  /\ opc' = IF testIndex' <= numTests THEN "healRun" ELSE "healSave"
  /\ pc' = "idle"
  /\ UNCHANGED <<configMaxSteps, optAgentic, replies, numTests, summaryRows, testResults, testerVars,
                 steps, actionHistory, pendingActions, pendingReasoning, result, retryVars,
                 traceVars, codeMode, codeVars, cancelSignal, toolVars,
                 healEnabled, staticResult, currentResult, rewriteAttempt, rewriteSucceeded,
                 scriptFile, sidecarFile, analyzeCalls, rewriteWrites, verifyRuns,
                 healerCalls, failedTestIndex, replayIndex, tierLog, healVerified, pageGotos>>

\* runTestFile, after healSuite returned: with results, regenerate the
\* script and the sidecar from them; with none, report every test failed
HealSave ==
  /\ opc = "healSave"
  /\ IF Len(healTestResults) > 0
     THEN /\ scriptFile' = generateSuite(healTestResults)
          /\ sidecarFile' = saveSuiteSteps(healTestResults)
          /\ opc' = "verifyHeal"
          /\ summaryRows' = summaryRows
     ELSE /\ summaryRows' = pushRows(summaryRows, numTests, {})
          /\ opc' = "finished"
          /\ UNCHANGED <<scriptFile, sidecarFile>>
  /\ UNCHANGED <<driverVars, healEnabled, staticResult, currentResult, rewriteAttempt,
                 rewriteSucceeded, analyzeCalls, rewriteWrites, verifyRuns, healVars>>

healedNames_All == 1..numTests

\* the tests the healer produced a result for
healedNames == {healTestResults[i].test : i \in 1..Len(healTestResults)}

\* runTestFile: run the regenerated script and report: on a pass the healed
\* tests passed; on a failure the tests before the failing one passed
HealVerify ==
  /\ opc = "verifyHeal"
  /\ \E verified \in StaticOutcomes(scriptFile) :
       /\ healVerified' = <<verified>>
       /\ IF verified.passed
          THEN summaryRows' = pushRows(summaryRows, numTests, healedNames)
          ELSE LET failIdx == IF verified.failedTestName # 0
                              THEN suiteIndexOf(verified.failedTestName, numTests)
                              ELSE 0 - 1
               IN summaryRows' = pushRows(summaryRows, numTests,
                                          {i \in 1..numTests : failIdx >= 0 /\ i - 1 < failIdx})
  /\ opc' = "finished"
  /\ UNCHANGED <<driverVars, healEnabled, staticResult, currentResult, rewriteAttempt,
                 rewriteSucceeded, scriptFile, sidecarFile, analyzeCalls, rewriteWrites,
                 verifyRuns, healerCalls, failedTestIndex, replayIndex, healTestResults,
                 healPassed, healFailed, tierLog, healLog, pageGotos>>

HealMaxSteps == 2

\* a suite with a saved script for all its tests (as generated, or
\* re-indented since) and a sidecar (as saved, or unreadable), healing on or off
InitHeal ==
  /\ configMaxSteps = HealMaxSteps
  /\ optAgentic = FALSE
  /\ replies = SuiteReplies
  /\ numTests = NumTests
  /\ testIndex = 1
  /\ suitePc = "waiting"
  /\ summaryRows = <<>>
  /\ testResults = <<>>
  /\ optMaxSteps = 0
  /\ optRetry = 0
  /\ lastFailure = <<>>
  /\ pc = "idle"
  /\ steps = <<>>
  /\ actionHistory = <<>>
  /\ pendingActions = <<>>
  /\ pendingReasoning = <<>>
  /\ result = <<>>
  /\ attempt = 0
  /\ retryFeedback = <<>>
  /\ request = <<>>
  /\ requestCalls = 0
  /\ providerCalls = 0
  /\ curReply = <<>>
  /\ curIdx = 0
  /\ codeMode = FALSE
  /\ pendingCode = <<>>
  /\ codeHistory = <<>>
  /\ loopWarnings = 0
  /\ finalResponse = <<>>
  /\ cancelSignal = FALSE
  /\ ToolsIdle
  /\ opc = "static"
  /\ healEnabled \in BOOLEAN
  /\ staticResult = <<>>
  /\ currentResult = <<>>
  /\ rewriteAttempt = 0
  /\ rewriteSucceeded = FALSE
  /\ \E indented \in BOOLEAN : scriptFile = ScriptAsSaved(NumTests, indented)
  /\ sidecarFile \in {saveSuiteSteps(SavedResults(NumTests)),
                      [readable |-> FALSE, tests |-> <<>>]}
  /\ analyzeCalls = 0
  /\ rewriteWrites = 0
  /\ verifyRuns = 0
  /\ healerCalls = 0
  /\ failedTestIndex = 0
  /\ replayIndex = 0
  /\ healTestResults = <<>>
  /\ healPassed = 0
  /\ healFailed = 0
  /\ tierLog = <<>>
  /\ healLog = <<>>
  /\ healVerified = <<>>
  /\ pageGotos = 0

NextHeal ==
  \/ StaticRun \/ RewriteAnalyze \/ RewriteVerify
  \/ HealStart \/ HealReplay
  \/ StartTest \/ Invoke \/ Consume \/ HealReturned
  \/ HealSave \/ HealVerify

SpecHeal == InitHeal /\ [][NextHeal]_vars

\* a suite run agentically by runTestFile, or a saved suite run statically
\* and healed
InitSuites == InitSuite \/ InitHeal

NextSuites == NextHeal \/ Returned

SpecSuites == InitSuites /\ [][NextSuites]_vars

\* ---- runTestFile: the choice between the agentic and the static branch ----

\* runTestFile, prologue: staticTestsOutdated (the sidecar lacks a test of
\* the suite, or there is a script and no sidecar at all)
staticTestsOutdated(script, sidecar, n) ==
  /\ script # <<>>
  /\ \/ savedStepsData(script, sidecar, n) # <<>>
     \/ sidecar = <<>>

runAgentic_IgnoresSidecar(agentic, script, sidecar, n) ==
  agentic \/ script = <<>>

\* runTestFile: runAgentic
runAgentic(agentic, script, sidecar, n) ==
  agentic \/ script = <<>> \/ staticTestsOutdated(script, sidecar, n)

\* runTestFile up to the branch: with runAgentic, start with the replay of
\* the tests the sidecar covers or, when nothing can be replayed, with the
\* agentic loop at the first test; else run the saved script
Route ==
  /\ opc = "route"
  /\ IF runAgentic(optAgentic, scriptFile, sidecarFile, numTests)
     THEN IF canPartialReplay(scriptFile, sidecarFile, numTests)
          THEN opc' = "agenticReplay" /\ suitePc' = suitePc /\ pageGotos' = pageGotos + 1
          ELSE opc' = "agentic" /\ suitePc' = "running" /\ pageGotos' = pageGotos
     ELSE opc' = "static" /\ suitePc' = suitePc /\ pageGotos' = pageGotos
  /\ UNCHANGED <<configMaxSteps, optAgentic, replies, numTests, testIndex, summaryRows, testResults,
                 testerVars, runVars, retryVars, traceVars, codeMode, codeVars, cancelSignal, toolVars,
                 healEnabled, staticResult, currentResult, rewriteAttempt, rewriteSucceeded,
                 scriptFile, sidecarFile, analyzeCalls, rewriteWrites, verifyRuns,
                 healerCalls, failedTestIndex, replayIndex, healTestResults, healPassed,
                 healFailed, tierLog, healLog, healVerified>>

\* runTestFile, agentic branch, one pass of the replay loop: replay the
\* saved steps of the next test, keep them as its result and report it
\* passed; when its steps are missing or the replay throws, drop the results
\* and start the agentic loop at the first test
AgenticReplay ==
  /\ opc = "agenticReplay"
  /\ LET test == replayIndex + 1
         saved == savedStepsData(scriptFile, sidecarFile, numTests)[1]
         k == findSaved(saved, test)
     IN \E out \in ReplayOutcomes :
          IF k = 0 \/ out = "throw"
          THEN /\ testResults' = replayFallback(testResults, replayIndex).results
               /\ opc' = "agentic"
               /\ testIndex' = replayFallback(testResults, replayIndex).next
               /\ pageGotos' = pageGotos + replayFallback(testResults, replayIndex).gotos
               /\ suitePc' = "running"
               /\ UNCHANGED <<summaryRows, replayIndex, healLog>>
          ELSE /\ testResults' = Append(testResults,
                    [test |-> test, steps |-> saved.tests[k].steps])
               /\ summaryRows' = Append(summaryRows,
                    [test |-> test, passed |-> TRUE, actionCount |-> 0])
               /\ healLog' = Append(healLog,
                    [test |-> test, kind |-> "replay",
                     replayed |-> replayedSteps(saved.tests[k].steps)])
               /\ replayIndex' = replayIndex + 1
               /\ pageGotos' = pageGotos
               /\ IF replayIndex + 1 < firstMissingTestIndex(scriptFile, sidecarFile, numTests)
                  THEN opc' = "agenticReplay" /\ UNCHANGED <<testIndex, suitePc>>
                  ELSE /\ opc' = "agentic"
                       /\ testIndex' = replayIndex + 2
                       /\ suitePc' = "running"
  /\ UNCHANGED <<configMaxSteps, optAgentic, replies, numTests, testerVars, runVars, retryVars,
                 traceVars, codeMode, codeVars, cancelSignal, toolVars,
                 healEnabled, staticResult, currentResult, rewriteAttempt, rewriteSucceeded,
                 scriptFile, sidecarFile, analyzeCalls, rewriteWrites, verifyRuns,
                 healerCalls, failedTestIndex, healTestResults, healPassed, healFailed,
                 tierLog, healVerified>>

\* runTestFile, agentic branch, after the loop: with results, generate the
\* script and the sidecar from them and run the script; a failure with a
\* test name and a message goes to the rewriter
AgenticSave ==
  /\ opc = "agentic"
  /\ suitePc = "done"
  /\ pc = "idle"
  /\ IF Len(testResults) > 0
     THEN /\ scriptFile' = generateSuite(testResults)
          /\ sidecarFile' = saveSuiteSteps(testResults)
          /\ \E verifyResult \in StaticOutcomes(scriptFile') :
               IF ~verifyResult.passed /\ verifyResult.failedTestName # 0
                  /\ verifyResult.hasMessage
               THEN /\ opc' = "agenticRewrite"
                    /\ currentResult' = <<verifyResult>>
               ELSE /\ opc' = "finished"
                    /\ currentResult' = currentResult
     ELSE /\ opc' = "finished"
          /\ UNCHANGED <<scriptFile, sidecarFile, currentResult>>
  /\ rewriteAttempt' = 0
  /\ UNCHANGED <<driverVars, summaryRows, healEnabled, staticResult, rewriteSucceeded,
                 analyzeCalls, rewriteWrites, verifyRuns, healVars>>

\* runTestFile, agentic branch, one pass of the rewriter loop on the
\* generated script: stop on AGENTIC or on an exception, else write what
\* analyze returned over the script and run it; stop when it passes or when
\* the attempts are used up
AgenticRewrite ==
  /\ opc = "agenticRewrite"
  /\ rewriteAttempt' = rewriteAttempt + 1
  /\ IF currentResult[1].failedTestName = 0
     THEN /\ opc' = "finished"
          /\ UNCHANGED <<scriptFile, currentResult>>
     ELSE \E reply \in RewriterReplies :
            IF reply.kind = "throw"
            THEN /\ opc' = "finished"
                 /\ UNCHANGED <<scriptFile, currentResult>>
            ELSE LET analysis == analyze(scriptFile, currentResult[1].failedTestName, reply)
                 IN IF analysis.decision = "AGENTIC"
                    THEN /\ opc' = "finished"
                         /\ UNCHANGED <<scriptFile, currentResult>>
                    ELSE /\ scriptFile' = analysis.rewrittenCode[1]
                         /\ \E reVerify \in StaticOutcomes(scriptFile') :
                              IF reVerify.passed
                              THEN /\ opc' = "finished"
                                   /\ currentResult' = currentResult
                              ELSE /\ currentResult' = <<reVerify>>
                                   /\ opc' = IF rewriteAttempt' < RewriterMaxAttempts
                                             THEN "agenticRewrite" ELSE "finished"
  /\ UNCHANGED <<driverVars, summaryRows, healEnabled, staticResult, rewriteSucceeded,
                 sidecarFile, analyzeCalls, rewriteWrites, verifyRuns, healVars>>

\* the saved steps of a test; the second step of the first test failed
\* when it was recorded
RecordedSteps(name) ==
  IF name = 1
  THEN <<[action |-> Type(T_Hi), reasoning |-> R_Plain, error |-> <<>>],
         [action |-> Click(400, 300), reasoning |-> R_Plain, error |-> <<E_Closed>>]>>
  ELSE SavedSteps(name)

RunTests == 3

\* the results of an earlier run of the first k tests
RecordedResults(k) == [i \in 1..k |-> [test |-> i, steps |-> RecordedSteps(i)]]

\* the script and the sidecar a run of runTestFile may find: none; a script
\* without a sidecar; the pair saved for the first k tests of the suite,
\* the sidecar readable or not
SavedArtifacts ==
  { <<<<>>, <<>>>>, <<generateSuite(RecordedResults(RunTests)), <<>>>> }
  \cup { <<generateSuite(RecordedResults(k)), saveSuiteSteps(RecordedResults(k))>> : k \in 0..RunTests }
  \cup { <<generateSuite(RecordedResults(RunTests)), [readable |-> FALSE, tests |-> <<>>]>> }

\* a suite at the start of runTestFile, with one of the given artifacts
RunStart(artifacts) ==
  /\ configMaxSteps = HealMaxSteps
  /\ optAgentic \in BOOLEAN
  /\ replies = SuiteReplies
  /\ numTests = RunTests
  /\ testIndex = 1
  /\ suitePc = "waiting"
  /\ summaryRows = <<>>
  /\ testResults = <<>>
  /\ optMaxSteps = 0
  /\ optRetry = 0
  /\ lastFailure = <<>>
  /\ pc = "idle"
  /\ steps = <<>>
  /\ actionHistory = <<>>
  /\ pendingActions = <<>>
  /\ pendingReasoning = <<>>
  /\ result = <<>>
  /\ attempt = 0
  /\ retryFeedback = <<>>
  /\ request = <<>>
  /\ requestCalls = 0
  /\ providerCalls = 0
  /\ curReply = <<>>
  /\ curIdx = 0
  /\ codeMode = FALSE
  /\ pendingCode = <<>>
  /\ codeHistory = <<>>
  /\ loopWarnings = 0
  /\ finalResponse = <<>>
  /\ cancelSignal = FALSE
  /\ ToolsIdle
  /\ opc = "route"
  /\ healEnabled = TRUE
  /\ staticResult = <<>>
  /\ currentResult = <<>>
  /\ rewriteAttempt = 0
  /\ rewriteSucceeded = FALSE
  /\ \E files \in artifacts : scriptFile = files[1] /\ sidecarFile = files[2]
  /\ analyzeCalls = 0
  /\ rewriteWrites = 0
  /\ verifyRuns = 0
  /\ healerCalls = 0
  /\ failedTestIndex = 0
  /\ replayIndex = 0
  /\ healTestResults = <<>>
  /\ healPassed = 0
  /\ healFailed = 0
  /\ tierLog = <<>>
  /\ healLog = <<>>
  /\ healVerified = <<>>
  /\ pageGotos = 0

\* a suite with the artifacts of an earlier run of the suite as it is
InitRun == RunStart(SavedArtifacts)

\* the results of an earlier run of the tests named in order
ResultsInOrder(order) ==
  [i \in 1..Len(order) |-> [test |-> order[i], steps |-> RecordedSteps(order[i])]]

\* the artifacts of an earlier run of the suite as it was before an edit:
\* saved when the suite had one more test at its end (removed since), or
\* when its first two tests were in the other order (reordered since, and
\* the later tests added)
EditedArtifacts ==
  { <<generateSuite(RecordedResults(RunTests + 1)), saveSuiteSteps(RecordedResults(RunTests + 1))>>,
    <<generateSuite(ResultsInOrder(<<2, 1>>)), saveSuiteSteps(ResultsInOrder(<<2, 1>>))>> }

\* a suite edited since its artifacts were saved
InitEdited == RunStart(EditedArtifacts)

NextRun == Route \/ AgenticReplay \/ Returned \/ AgenticSave \/ AgenticRewrite \/ NextHeal

SpecRun == InitRun /\ [][NextRun]_vars

SpecEdited == InitEdited /\ [][NextRun]_vars

\* ---- run artifacts: runStaticTest and cleanupOldRuns ----

\* cleanupOldRuns: keepLast, the default of the parameter
keepLast == 10

\* the suites whose scripts are run; a suite is named by its rank in the
\* order of localeCompare (no suite name is a prefix of another)
RunSuites == {1, 2}

\* the last second at which a static run starts
MaxRunClock == 12

\* a.name.localeCompare(b.name) > 0 for the names `${suiteName}-${timestamp}`:
\* the suite name decides, then the timestamp
nameAfter(a, b) ==
  \/ a.suite > b.suite
  \/ a.suite = b.suite /\ a.stamp > b.stamp

\* cleanupOldRuns: every directory of zentests/runs, sorted by name in
\* descending order; all but the first keep entries are removed
cleanupOldRuns(dirs, keep) ==
  {d \in dirs : Cardinality({e \in dirs : nameAfter(e, d)}) < keep}

\* the other variables of the tool are not touched by the tools below
restVars == <<suiteVars, testerVars, runVars, retryVars, traceVars, codeMode, codeVars,
              cancelSignal, orchVars, healVars>>

\* runStaticTest, as far as zentests/runs goes: the old runs are cleaned up,
\* then the script is run and the directory of this run is made
RunStaticArtifacts ==
  /\ runClock < MaxRunClock
  /\ \E suiteName \in RunSuites :
       LET timestamp == runClock + 1
       IN /\ runClock' = timestamp
          /\ runsDir' = cleanupOldRuns(runsDir, keepLast)
                          \cup {[suite |-> suiteName, stamp |-> timestamp]}
  /\ UNCHANGED <<restVars, replayInput, replayPos, replayStatus, pageLog, keyCombo, pressedKey,
                 unitVars>>

\* no test is being run by the driver
NoTestRun ==
  /\ configMaxSteps = MaxConfigSteps
  /\ optAgentic = FALSE
  /\ replies = SuiteReplies
  /\ codeMode = FALSE
  /\ numTests = 1
  /\ InitCommon

InitArtifacts == NoTestRun /\ ToolsIdle

\* static runs of the scripts of RunSuites, one a second at most
SpecArtifacts == InitArtifacts /\ [][RunStaticArtifacts]_vars

\* ---- key combos: normalizeKeyCombo (executor, replayer, builder) ----

\* strings are sequences of characters
LowerLetters == <<"a", "b", "c", "d", "e", "f", "g", "h", "i", "j", "k", "l", "m", "n", "o", "p", "q", "r", "s", "t", "u", "v", "w", "x", "y", "z">>
UpperLetters == <<"A", "B", "C", "D", "E", "F", "G", "H", "I", "J", "K", "L", "M", "N", "O", "P", "Q", "R", "S", "T", "U", "V", "W", "X", "Y", "Z">>

K_Enter == <<"E", "n", "t", "e", "r">>

\* String.prototype.toUpperCase
toUpperCase(s) ==
  [i \in 1..Len(s) |->
     IF \E k \in 1..26 : LowerLetters[k] = s[i]
     THEN UpperLetters[CHOOSE k \in 1..26 : LowerLetters[k] = s[i]]
     ELSE s[i]]

\* String.prototype.split, for a one-character delimiter
RECURSIVE split(_, _)
split(s, d) ==
  IF ~Includes(s, <<d>>) THEN <<s>>
  ELSE LET i == CHOOSE k \in 1..Len(s) : s[k] = d /\ \A j \in 1..(k - 1) : s[j] # d
       IN <<SubSeq(s, 1, i - 1)>> \o split(SubSeq(s, i + 1, Len(s)), d)

\* Array.prototype.join("+")
RECURSIVE joinPlus(_)
joinPlus(parts) ==
  IF parts = <<>> THEN <<>>
  ELSE IF Len(parts) = 1 THEN parts[1]
  ELSE parts[1] \o <<"+">> \o joinPlus(Tail(parts))

\* (cmd|command|meta|ctrl|control|alt|option|shift)
DashModifiers ==
  {<<"c", "m", "d">>,
   <<"c", "o", "m", "m", "a", "n", "d">>,
   <<"m", "e", "t", "a">>,
   <<"c", "t", "r", "l">>,
   <<"c", "o", "n", "t", "r", "o", "l">>,
   <<"a", "l", "t">>,
   <<"o", "p", "t", "i", "o", "n">>,
   <<"s", "h", "i", "f", "t">>}

\* /(^|[-])(cmd|command|meta|ctrl|control|alt|option|shift)-/i.test(trimmed)
hasDashModifiers(trimmed) ==
  \E p \in 1..Len(trimmed) : \E w \in DashModifiers :
    /\ p = 1 \/ trimmed[p - 1] = "-"
    /\ p + Len(w) <= Len(trimmed)
    /\ ToLowerCase(SubSeq(trimmed, p, p + Len(w) - 1)) = w
    /\ trimmed[p + Len(w)] = "-"

\* the switch of the parts.map callback: lower-cased token |-> key name
KeyAliases ==
  { [from |-> <<"c", "m", "d">>, to |-> <<"M", "e", "t", "a">>],
    [from |-> <<"c", "o", "m", "m", "a", "n", "d">>, to |-> <<"M", "e", "t", "a">>],
    [from |-> <<"m", "e", "t", "a">>, to |-> <<"M", "e", "t", "a">>],
    [from |-> <<"c", "t", "r", "l">>, to |-> <<"C", "o", "n", "t", "r", "o", "l">>],
    [from |-> <<"c", "o", "n", "t", "r", "o", "l">>, to |-> <<"C", "o", "n", "t", "r", "o", "l">>],
    [from |-> <<"a", "l", "t">>, to |-> <<"A", "l", "t">>],
    [from |-> <<"o", "p", "t", "i", "o", "n">>, to |-> <<"A", "l", "t">>],
    [from |-> <<"s", "h", "i", "f", "t">>, to |-> <<"S", "h", "i", "f", "t">>],
    [from |-> <<"e", "s", "c">>, to |-> <<"E", "s", "c", "a", "p", "e">>],
    [from |-> <<"r", "e", "t", "u", "r", "n">>, to |-> <<"E", "n", "t", "e", "r">>],
    [from |-> <<"s", "p", "a", "c", "e">>, to |-> <<"S", "p", "a", "c", "e">>],
    [from |-> <<"s", "p", "a", "c", "e", "b", "a", "r">>, to |-> <<"S", "p", "a", "c", "e">>],
    [from |-> <<"d", "e", "l">>, to |-> <<"D", "e", "l", "e", "t", "e">>] }

\* the callback of parts.map: one part of the combo to its Playwright name
\* (the three copies of normalizeKeyCombo hold the same callback)
normalizeKeyPart(part) ==
  LET token == trim(part)
      lower == ToLowerCase(token)
  IN IF token = <<>> THEN <<>>
     ELSE IF \E a \in KeyAliases : a.from = lower
          THEN (CHOOSE a \in KeyAliases : a.from = lower).to
     ELSE IF Len(token) = 1 THEN toUpperCase(token) ELSE token

\* parts.map(..).filter(Boolean)
normalizedParts(parts) ==
  SelectSeq([i \in 1..Len(parts) |-> normalizeKeyPart(parts[i])], LAMBDA p : p # <<>>)

\* BrowserExecutor: normalizeKeyCombo
normalizeKeyCombo(rawKey) ==
  LET trimmed == trim(rawKey)
  IN IF trimmed = <<>> THEN K_Enter
     ELSE LET hasPlus == Includes(trimmed, <<"+">>)
              delimiter == IF hasPlus THEN <<"+">>
                           ELSE IF hasDashModifiers(trimmed) THEN <<"-">> ELSE <<>>
              parts == IF delimiter # <<>> THEN split(trimmed, delimiter[1]) ELSE <<trimmed>>
              joined == joinPlus(normalizedParts(parts))
          IN IF joined = <<>> THEN K_Enter ELSE joined

\* stepReplayer: normalizeKeyCombo
replayerNormalizeKeyCombo(rawKey) ==
  LET trimmed == trim(rawKey)
  IN IF trimmed = <<>> THEN K_Enter
     ELSE LET hasPlus == Includes(trimmed, <<"+">>)
              delimiter == IF hasPlus THEN <<"+">>
                           ELSE IF hasDashModifiers(trimmed) THEN <<"-">> ELSE <<>>
              parts == IF delimiter # <<>> THEN split(trimmed, delimiter[1]) ELSE <<trimmed>>
              joined == joinPlus(normalizedParts(parts))
          IN IF joined = <<>> THEN K_Enter ELSE joined

\* TestBuilder: normalizeKeyCombo
builderNormalizeKeyCombo(rawKey) ==
  LET trimmed == trim(rawKey)
  IN IF trimmed = <<>> THEN K_Enter
     ELSE LET hasPlus == Includes(trimmed, <<"+">>)
              delimiter == IF hasPlus THEN <<"+">>
                           ELSE IF hasDashModifiers(trimmed) THEN <<"-">> ELSE <<>>
              parts == IF delimiter # <<>> THEN split(trimmed, delimiter[1]) ELSE <<trimmed>>
              joined == joinPlus(normalizedParts(parts))
          IN IF joined = <<>> THEN K_Enter ELSE joined

\* the pieces key combo strings are put together from
KeyPieces ==
  {<<"c", "t", "r", "l">>, <<"S", "h", "i", "f", "t">>, <<"e", "s", "c">>,
   <<"a">>, <<"+">>, <<"-">>, <<" ">>, K_Enter}

\* the most pieces of one key combo string
MaxKeyPieces == 3

RECURSIVE KeyCombos(_)
KeyCombos(n) ==
  IF n = 0 THEN {<<>>}
  ELSE KeyCombos(n - 1) \cup {s \o p : s \in KeyCombos(n - 1), p \in KeyPieces}

\* a key action reaches keyboard.press in the executor, in the replayer and
\* in the script the builder writes, each through its normalizeKeyCombo
PressKey ==
  /\ pressedKey = <<>>
  /\ pressedKey' = <<[executor |-> normalizeKeyCombo(keyCombo),
                      replayer |-> replayerNormalizeKeyCombo(keyCombo),
                      builder |-> builderNormalizeKeyCombo(keyCombo)]>>
  /\ UNCHANGED <<restVars, runsDir, runClock, replayInput, replayPos, replayStatus,
                 pageLog, keyCombo, unitVars>>

InitKeys ==
  /\ NoTestRun
  /\ UnitsIdle
  /\ runsDir = {}
  /\ runClock = 0
  /\ replayInput = <<>>
  /\ replayPos = 0
  /\ replayStatus = "idle"
  /\ pageLog = <<>>
  /\ keyCombo \in KeyCombos(MaxKeyPieces)
  /\ pressedKey = <<>>

\* one key action with any key combo string of at most MaxKeyPieces pieces
SpecKeys == InitKeys /\ [][PressKey]_vars

\* ---- replay of saved steps: replaySteps, and what the builder writes ----

\* ElementInfo records of recorded steps; an absent field is ""
ElementInfos ==
  { [selector |-> "[data-testid=\"save\"]", tagName |-> "button", role |-> "",
     ariaLabel |-> "", name |-> "", placeholder |-> "", text |-> "Save", id |-> ""],
    [selector |-> "input", tagName |-> "input", role |-> "",
     ariaLabel |-> "", name |-> "", placeholder |-> "Email", text |-> "", id |-> "email"],
    [selector |-> "div", tagName |-> "div", role |-> "",
     ariaLabel |-> "", name |-> "", placeholder |-> "", text |-> "Welcome", id |-> ""],
    [selector |-> "#main > span", tagName |-> "span", role |-> "",
     ariaLabel |-> "", name |-> "", placeholder |-> "", text |-> "", id |-> ""] }

\* the actions of recorded steps, one or two of each variant; an optional
\* field is <<>> when absent
ReplayActions ==
  { [type |-> "click", x |-> 10, y |-> 20],
    [type |-> "click_button", name |-> "Save", exact |-> <<>>],
    [type |-> "click_button", name |-> "Save", exact |-> <<FALSE>>],
    [type |-> "click_text", text |-> "Welcome", exact |-> <<>>],
    [type |-> "select_input", field |-> "Email", value |-> "a@b", exact |-> <<>>],
    [type |-> "double_click", x |-> 10, y |-> 20],
    [type |-> "type", text |-> "hello"],
    [type |-> "key", key |-> <<"c", "t", "r", "l", "-", "s">>],
    [type |-> "scroll", direction |-> "up", amount |-> 0],
    [type |-> "wait", ms |-> 500],
    [type |-> "assert_visible", x |-> 10, y |-> 20],
    [type |-> "assert_text", x |-> 10, y |-> 20, text |-> "Welcome"],
    [type |-> "done", success |-> TRUE, reason |-> "ok"],
    [type |-> "drag"] }

\* the recorded steps that are replayed: every action without ElementInfo,
\* the actions the builder locates by ElementInfo with one, and steps that
\* carry the error of the original run
ReplaySteps ==
  {[action |-> a, elementInfo |-> <<>>, error |-> <<>>] : a \in ReplayActions}
  \cup {[action |-> a, elementInfo |-> <<info>>, error |-> <<>>] :
          a \in {b \in ReplayActions : b.type = "click"}, info \in ElementInfos}
  \cup {[action |-> a, elementInfo |-> <<info>>, error |-> <<>>] :
          a \in {b \in ReplayActions : b.type \in {"double_click", "type", "assert_visible"}},
          info \in {e \in ElementInfos : e.tagName = "input"}}
  \cup {[action |-> a, elementInfo |-> <<>>, error |-> E_Closed] :
          a \in {b \in ReplayActions : b.type \in {"click", "assert_text"}}}

\* the most steps handed to replaySteps
MaxReplayLen == 3

RECURSIVE StepLists(_)
StepLists(n) ==
  IF n = 0 THEN {<<>>}
  ELSE StepLists(n - 1) \cup {Append(l, s) : l \in StepLists(n - 1), s \in ReplaySteps}

\* replaySteps: `if (step.error) continue`
skipsStep_Never(step) == FALSE

skipsStep(step) == step.error # <<>>

\* fillInputByField: candidates, by position
inputCandidates(field, exact) ==
  << [by |-> "label", text |-> field, exact |-> exact],
     [by |-> "placeholder", text |-> field, exact |-> exact],
     [by |-> "role", role |-> "textbox", name |-> field, exact |-> exact] >>

\* exact ?? dflt
orDefault(exact, dflt) == IF exact = <<>> THEN dflt ELSE exact[1]

\* replayStep: the call on the page that acts for the action, if there is
\* one; firstHit is the first candidate of fillInputByField that counts an
\* element (0: none does, and fillInputByField throws)
replayStep(action, firstHit) ==
  CASE action.type = "click" ->
         <<[call |-> "click", target |-> [by |-> "mouse", x |-> action.x, y |-> action.y]]>>
    [] action.type = "click_button" ->
         <<[call |-> "click",
            target |-> [by |-> "role", role |-> "button", name |-> action.name,
                        exact |-> orDefault(action.exact, TRUE)]]>>
    [] action.type = "click_text" ->
         <<[call |-> "click",
            target |-> [by |-> "text", text |-> action.text,
                        exact |-> orDefault(action.exact, FALSE), first |-> TRUE]]>>
    [] action.type = "select_input" ->
         IF firstHit = 0 THEN <<[call |-> "fill", target |-> [by |-> "none"]]>>
         ELSE <<[call |-> "fill",
                 target |-> inputCandidates(action.field, orDefault(action.exact, TRUE))[firstHit],
                 value |-> action.value]>>
    [] action.type = "double_click" ->
         <<[call |-> "dblclick", target |-> [by |-> "mouse", x |-> action.x, y |-> action.y]]>>
    [] action.type = "type" ->
         <<[call |-> "type", target |-> [by |-> "keyboard"], text |-> action.text]>>
    [] action.type = "key" ->
         <<[call |-> "press", target |-> [by |-> "keyboard"],
            key |-> replayerNormalizeKeyCombo(action.key)]>>
    [] action.type = "scroll" ->
         <<[call |-> "wheel", target |-> [by |-> "mouse"],
            delta |-> (IF action.amount = 0 THEN 100 ELSE action.amount)
                        * (IF action.direction = "up" THEN -1 ELSE 1)]>>
    [] action.type = "wait" ->
         <<[call |-> "waitForTimeout", target |-> [by |-> "page"], ms |-> action.ms]>>
    [] OTHER -> <<>>

\* replaySteps: one pass of the for-loop; a call on the page may throw
ReplayNext ==
  /\ replayStatus = "running"
  /\ replayPos <= Len(replayInput)
  /\ LET step == replayInput[replayPos]
         after == IF replayPos + 1 > Len(replayInput) THEN "returned" ELSE "running"
     IN IF skipsStep(step)
        THEN /\ pageLog' = pageLog
             /\ replayStatus' = after
        ELSE \E firstHit \in 0..3, ok \in BOOLEAN :
               LET calls == replayStep(step.action, firstHit)
                   hit == step.action.type = "select_input" => firstHit > 0
               IN /\ step.action.type # "select_input" => firstHit = 0
                  /\ ~hit => ~ok
                  /\ IF calls = <<>>
                     THEN /\ ok
                          /\ pageLog' = pageLog
                          /\ replayStatus' = after
                     ELSE /\ pageLog' = Append(pageLog,
                                 [step |-> replayPos, made |-> calls[1], ok |-> ok])
                          /\ replayStatus' = IF ok THEN after ELSE "thrown"
  /\ replayPos' = replayPos + 1
  /\ UNCHANGED <<restVars, runsDir, runClock, replayInput, keyCombo, pressedKey, unitVars>>

\* TestBuilder.inferRoleFromTagName; "" is null
inferRoleFromTagName(tagName) ==
  CASE tagName = "button" -> "button"
    [] tagName = "a" -> "link"
    [] tagName \in {"input", "textarea"} -> "textbox"
    [] tagName = "select" -> "combobox"
    [] tagName \in {"checkbox", "input[type='checkbox']"} -> "checkbox"
    [] tagName \in {"radio", "input[type='radio']"} -> "radio"
    [] OTHER -> ""

\* TestBuilder.isGenericSelector
isGenericSelector(selector) ==
  selector \in {"p", "h1", "h2", "h3", "h4", "h5", "h6", "div", "span", "a", "button",
                "input", "textarea", "label", "form", "section", "article", "header",
                "footer", "nav", "main", "aside"}

\* info.selector.match(/\[data-testid="([^"]+)"\]/), on the selectors of
\* ElementInfos: the captured id, or <<>> for no match
testIdMatch(selector) ==
  IF selector = "[data-testid=\"save\"]" THEN <<"save">> ELSE <<>>

\* a || b || c
firstTruthy(values) ==
  IF \E i \in 1..Len(values) : values[i] # ""
  THEN values[CHOOSE i \in 1..Len(values) :
                values[i] # "" /\ \A j \in 1..(i - 1) : values[j] = ""]
  ELSE ""

\* TestBuilder.buildLocator; <<>> is null
buildLocator(elementInfo) ==
  IF elementInfo = <<>> THEN <<>>
  ELSE LET info == elementInfo[1]
           role == firstTruthy(<<info.role, inferRoleFromTagName(info.tagName)>>)
       IN IF testIdMatch(info.selector) # <<>>
          THEN <<[by |-> "testId", id |-> testIdMatch(info.selector)[1]]>>
          ELSE IF info.tagName \in {"input", "textarea"}
          THEN LET accessibleName == firstTruthy(<<info.ariaLabel, info.name, info.placeholder>>)
               IN IF role # "" /\ accessibleName # ""
                  THEN <<[by |-> "role", role |-> role, name |-> accessibleName, exact |-> TRUE]>>
                  ELSE IF info.name # "" THEN <<[by |-> "label", text |-> info.name]>>
                  ELSE IF info.placeholder # ""
                  THEN <<[by |-> "placeholder", text |-> info.placeholder]>>
                  ELSE IF role # "" THEN <<[by |-> "role", role |-> role]>>
                  ELSE <<>>
          ELSE LET accessibleName == firstTruthy(<<info.ariaLabel, info.name, info.text>>)
               IN IF role # "" /\ accessibleName # ""
                  THEN <<[by |-> "role", role |-> role, name |-> accessibleName, exact |-> TRUE]>>
                  ELSE IF info.text # ""
                  THEN <<[by |-> "text", text |-> info.text, exact |-> TRUE]>>
                  ELSE IF info.id # "" THEN <<[by |-> "css", selector |-> "#" \o info.id]>>
                  ELSE IF /\ info.tagName \notin {"input", "button"}
                          /\ info.selector # ""
                          /\ ~isGenericSelector(info.selector)
                  THEN <<[by |-> "css", selector |-> info.selector]>>
                  ELSE <<>>

\* TestBuilder.stepToCode: the call of the statement written for the step,
\* if one is written (a comment is no call)
stepToCode(step) ==
  LET action == step.action
      locator == buildLocator(step.elementInfo)
  IN CASE action.type = "click" ->
            IF locator # <<>> THEN <<[call |-> "click", target |-> locator[1]]>>
            ELSE <<[call |-> "click", target |-> [by |-> "mouse", x |-> action.x, y |-> action.y]]>>
       [] action.type = "click_button" ->
            <<[call |-> "click",
               target |-> [by |-> "role", role |-> "button", name |-> action.name,
                           exact |-> TRUE]]>>
       [] action.type = "double_click" ->
            IF locator # <<>> THEN <<[call |-> "dblclick", target |-> locator[1]]>>
            ELSE <<[call |-> "dblclick",
                    target |-> [by |-> "mouse", x |-> action.x, y |-> action.y]]>>
       [] action.type = "type" ->
            IF locator # <<>>
            THEN <<[call |-> "fill", target |-> locator[1], value |-> action.text]>>
            ELSE <<[call |-> "type", target |-> [by |-> "keyboard"], text |-> action.text]>>
       [] action.type = "key" ->
            <<[call |-> "press", target |-> [by |-> "keyboard"],
               key |-> builderNormalizeKeyCombo(action.key)]>>
       [] action.type = "scroll" ->
            <<[call |-> "wheel", target |-> [by |-> "mouse"],
               delta |-> (IF action.amount = 0 THEN 100 ELSE action.amount)
                           * (IF action.direction = "up" THEN -1 ELSE 1)]>>
       [] action.type = "wait" ->
            <<[call |-> "waitForTimeout", target |-> [by |-> "page"], ms |-> action.ms]>>
       [] action.type = "assert_visible" ->
            IF locator # <<>> THEN <<[call |-> "expectVisible", target |-> locator[1]]>>
            ELSE <<[call |-> "expectVisible", target |-> [by |-> "css", selector |-> "body"]]>>
       [] action.type = "assert_text" ->
            <<[call |-> "expectVisible",
               target |-> [by |-> "text", text |-> action.text, exact |-> FALSE]]>>
       [] OTHER -> <<>>

InitReplay ==
  /\ NoTestRun
  /\ UnitsIdle
  /\ runsDir = {}
  /\ runClock = 0
  /\ replayInput \in StepLists(MaxReplayLen) \ {<<>>}
  /\ replayPos = 1
  /\ replayStatus = "running"
  /\ pageLog = <<>>
  /\ keyCombo = <<>>
  /\ pressedKey = <<>>

\* replaySteps on any list of one to MaxReplayLen recorded steps
SpecReplay == InitReplay /\ [][ReplayNext]_vars

\* run, after the suites have been run: the summary table is printed and
\* the function returns; no exit code is set from the rows, so the process
\* ends with status 0 (process.exit(1) is called only for a missing
\* environment, API key or suite, before any test is run)
runExitStatus(rows) == IF rows = <<>> THEN 0 ELSE 0

\* ---- executed clicks: BrowserExecutor.execute and the step run records ----
S_NoButtonPrefix == <<"N","o"," ","b","u","t","t","o","n"," ","f","o","u","n","d"," ","w","i","t","h"," ","n","a","m","e",":"," ">>

\* one action of each click variant
ClickActions ==
  { [type |-> "click", x |-> 10, y |-> 20],
    [type |-> "double_click", x |-> 10, y |-> 20],
    [type |-> "click_button", name |-> <<"S", "a", "v", "e">>, exact |-> <<>>] }

\* what the page does during one click: the interactive element near the
\* point that findClickableTarget snaps to (<<>> when there is none), whether
\* the click call rejects, for click_button whether a button of that name
\* has a handle and whether the handle still has a bounding box after the
\* click, and what page.evaluate of getElementAtPoint meets: an element,
\* nothing at the point (elementFromPoint gives null), or a rejection (the
\* click started a navigation and the execution context is gone)
ClickPages ==
  [ target : {<<>>} \cup {<<e>> : e \in {i \in ElementInfos : i.tagName \in {"button", "input"}}},
    clickThrows : BOOLEAN,
    handle : BOOLEAN,
    box : BOOLEAN,
    probe : {"element", "nothing", "throws"},
    element : {i \in ElementInfos : i.tagName \in {"button", "div"}} ]

\* getElementAtPoint: `elementInfo || undefined`, and undefined from the catch
getElementAtPoint(page) ==
  IF page.probe = "element" THEN <<page.element>> ELSE <<>>

\* getElementInfoFromHandle
getElementInfoFromHandle(page) ==
  IF ~page.box THEN <<>> ELSE getElementAtPoint(page)

\* findClickableTarget
findClickableTarget(page) == page.target

\* the result of execute's catch block
executeFailed(action, message) ==
  [action |-> action, elementInfo |-> <<>>, error |-> message]

\* BrowserExecutor.execute for the click variants
execute(action, page) ==
  CASE action.type \in {"click", "double_click"} ->
         LET target == findClickableTarget(page)
         IN IF page.clickThrows THEN executeFailed(action, E_Timeout)
            ELSE [action |-> action,
                  elementInfo |-> IF target # <<>> THEN target
                                  ELSE getElementAtPoint(page),
                  error |-> <<>>]
    [] action.type = "click_button" ->
         IF ~page.handle THEN executeFailed(action, S_NoButtonPrefix \o action.name)
         ELSE IF page.clickThrows THEN executeFailed(action, E_Timeout)
         ELSE [action |-> action,
               elementInfo |-> getElementInfoFromHandle(page),
               error |-> <<>>]

\* the most click steps of one run here
MaxClickSteps == 2

\* run: execute a click action and record its step
RecordClick ==
  /\ Len(clickSteps) < MaxClickSteps
  /\ \E action \in ClickActions, page \in ClickPages :
       LET res == execute(action, page)
       IN clickSteps' = Append(clickSteps,
            [action |-> action, reasoning |-> R_Plain,
             elementInfo |-> res.elementInfo, error |-> res.error])
  /\ UNCHANGED <<restVars, runsDir, runClock, replayInput, replayPos, replayStatus, pageLog,
                 keyCombo, pressedKey, signInput, signOutput, buildInput, buildOutput,
                 rewriteInput, rewriteOutput>>

InitClicks == NoTestRun /\ ToolsIdle

\* up to MaxClickSteps click actions of a run, on any page
SpecClicks == InitClicks /\ [][RecordClick]_vars

\* ---- the action signature and the repetition guard on all action variants ----
\* actions of every variant, some of them differing in one field only; an
\* optional field is <<>> when absent
SignActions ==
  { [type |-> "click", x |-> 10, y |-> 20, button |-> <<>>],
    [type |-> "click", x |-> 10, y |-> 21, button |-> <<>>],
    [type |-> "click", x |-> 10, y |-> 20, button |-> <<"r","i","g","h","t">>],
    [type |-> "double_click", x |-> 10, y |-> 20],
    [type |-> "mouse_move", x |-> 10, y |-> 20],
    [type |-> "mouse_down", x |-> 10, y |-> 20, button |-> <<>>],
    [type |-> "mouse_down", x |-> 30, y |-> 40, button |-> <<>>],
    [type |-> "mouse_up", x |-> 10, y |-> 20, button |-> <<>>],
    [type |-> "mouse_up", x |-> 30, y |-> 40, button |-> <<>>],
    [type |-> "drag", startX |-> 0, startY |-> 0, endX |-> 10, endY |-> 10],
    [type |-> "drag", startX |-> 0, startY |-> 0, endX |-> 20, endY |-> 20],
    [type |-> "click_button", name |-> <<"S","a","v","e">>, exact |-> <<>>],
    [type |-> "click_button", name |-> <<"S","a","v","e","d">>, exact |-> <<>>],
    [type |-> "click_text", text |-> <<"S","a","v","e">>, exact |-> <<FALSE>>],
    [type |-> "select_input", field |-> <<"a">>, value |-> <<"b">>, exact |-> <<>>],
    [type |-> "select_input", field |-> <<"a">>, value |-> <<"c">>, exact |-> <<>>],
    [type |-> "type", text |-> T_Hi],
    [type |-> "type", text |-> <<"h","o">>],
    [type |-> "key", key |-> K_Enter],
    [type |-> "scroll", x |-> 10, y |-> 20, direction |-> <<"u","p">>, amount |-> <<>>],
    [type |-> "scroll", x |-> 10, y |-> 20, direction |-> <<"u","p">>, amount |-> <<3>>],
    [type |-> "wait", ms |-> 500],
    [type |-> "wait", ms |-> 50],
    [type |-> "screenshot"],
    [type |-> "assert_visible", x |-> 10, y |-> 20],
    [type |-> "assert_text", x |-> 10, y |-> 20, text |-> T_Hi],
    [type |-> "done", success |-> FALSE, reason |-> D_Stuck] }

\* run, as far as the guard goes: after RepeatCount steps of the first
\* action the second is taken from the batch; both are signed, the first
\* twice, and the guard gives its verdict on the second
SignAndGuard ==
  /\ signInput # <<>>
  /\ signOutput = <<>>
  /\ LET a == signInput[1]
         b == signInput[2]
         history == [i \in 1..RepeatCount |-> [action |-> a, reasoning |-> R_Plain,
                                                error |-> <<>>]]
     IN signOutput' = <<[first |-> actionSignature(a),
                         again |-> actionSignature(a),
                         second |-> actionSignature(b),
                         repeated |-> isRepeatedAction(history, b, RepeatCount)]>>
  /\ UNCHANGED <<restVars, runsDir, runClock, replayInput, replayPos, replayStatus, pageLog,
                 keyCombo, pressedKey, clickSteps, signInput, buildInput, buildOutput,
                 rewriteInput, rewriteOutput>>

InitSign ==
  /\ NoTestRun
  /\ runsDir = {}
  /\ runClock = 0
  /\ replayInput = <<>>
  /\ replayPos = 0
  /\ replayStatus = "idle"
  /\ pageLog = <<>>
  /\ keyCombo = <<>>
  /\ pressedKey = <<>>
  /\ clickSteps = <<>>
  /\ signInput \in SignActions \X SignActions
  /\ signOutput = <<>>
  /\ buildInput = <<>>
  /\ buildOutput = <<>>
  /\ rewriteInput = <<>>
  /\ rewriteOutput = <<>>

\* any two actions of SignActions
SpecSign == InitSign /\ [][SignAndGuard]_vars

\* ---- TestBuilder: the body of a test block ----
\* the text stepToCode returns for a step, as far as two texts can differ:
\* the call, and for the coordinate fallback of assert_visible the point
\* named in its trailing comment; <<>> is null
codeOf(step) ==
  IF stepToCode(step) = <<>> THEN <<>>
  ELSE IF step.action.type = "assert_visible" /\ buildLocator(step.elementInfo) = <<>>
  THEN <<[stmt |-> stepToCode(step)[1], at |-> <<step.action.x, step.action.y>>]>>
  ELSE <<[stmt |-> stepToCode(step)[1], at |-> <<>>]>>

isAssertion(step) == step.action.type \in {"assert_visible", "assert_text"}

\* buildTestBlock, the for-loop over the steps: the comment and code lines
\* pushed from a step on, given the assertions seen so far in this block
RECURSIVE stepLines(_, _)
stepLines(recorded, seenAssertions) ==
  IF recorded = <<>> THEN <<>>
  ELSE LET step == Head(recorded)
           code == codeOf(step)
       IN IF code = <<>> THEN stepLines(Tail(recorded), seenAssertions)
          ELSE IF isAssertion(step) /\ code[1] \in seenAssertions
          THEN stepLines(Tail(recorded), seenAssertions)
          ELSE (IF step.reasoning # <<>>
                THEN <<[kind |-> "comment", text |-> step.reasoning]>> ELSE <<>>)
               \o <<[kind |-> "code", code |-> code[1]]>>
               \o stepLines(Tail(recorded),
                            IF isAssertion(step) THEN seenAssertions \cup {code[1]}
                            ELSE seenAssertions)

\* buildTestBlock
buildTestBlock(test, recorded, navigateFirst) ==
  [name |-> test, goto |-> navigateFirst, lines |-> stepLines(recorded, {})]

\* generateSuite, the loop over testResults: one block per test, the first
\* with the navigation
suiteBlocks(results) ==
  [i \in 1..Len(results) |->
     buildTestBlock(results[i].test, results[i].steps, i = 1)]

\* the recorded steps handed to the builder: two assertions, a click and a
\* done (for which no code is written)
BuildSteps ==
  { [action |-> [type |-> "assert_text", x |-> 10, y |-> 20, text |-> "Welcome"],
     reasoning |-> R_Plain, elementInfo |-> <<>>, error |-> <<>>],
    [action |-> [type |-> "assert_visible", x |-> 10, y |-> 20],
     reasoning |-> <<>>, elementInfo |-> <<>>, error |-> <<>>],
    [action |-> [type |-> "click", x |-> 10, y |-> 20],
     reasoning |-> R_Plain, elementInfo |-> <<>>, error |-> <<>>],
    [action |-> [type |-> "done", success |-> TRUE, reason |-> "ok"],
     reasoning |-> R_Plain, elementInfo |-> <<>>, error |-> <<>>] }

\* the most steps of one test and the most tests of one suite here
MaxBuildLen == 3
MaxBuildTests == 2

RECURSIVE BuildLists(_)
BuildLists(n) ==
  IF n = 0 THEN {<<>>}
  ELSE BuildLists(n - 1) \cup {Append(s, e) : s \in BuildLists(n - 1), e \in BuildSteps}

\* TestBuilder.generateSuite on the results of a run
GenerateSuite ==
  /\ buildInput # <<>>
  /\ buildOutput = <<>>
  /\ buildOutput' = suiteBlocks(buildInput)
  /\ UNCHANGED <<restVars, runsDir, runClock, replayInput, replayPos, replayStatus, pageLog,
                 keyCombo, pressedKey, clickSteps, signInput, signOutput, buildInput,
                 rewriteInput, rewriteOutput>>

InitBuild ==
  /\ NoTestRun
  /\ runsDir = {}
  /\ runClock = 0
  /\ replayInput = <<>>
  /\ replayPos = 0
  /\ replayStatus = "idle"
  /\ pageLog = <<>>
  /\ keyCombo = <<>>
  /\ pressedKey = <<>>
  /\ clickSteps = <<>>
  /\ signInput = <<>>
  /\ signOutput = <<>>
  /\ \E n \in 1..MaxBuildTests :
       buildInput \in [1..n -> {[test |-> t, steps |-> s] :
                                  t \in 1..MaxBuildTests, s \in BuildLists(MaxBuildLen)}]
  /\ \A i \in 1..Len(buildInput) : buildInput[i].test = i
  /\ buildOutput = <<>>
  /\ rewriteInput = <<>>
  /\ rewriteOutput = <<>>

\* the suite of one or two tests of up to MaxBuildLen steps each
SpecBuild == InitBuild /\ [][GenerateSuite]_vars

\* ---- TestRewriter: the splice of a rewritten body into the script text ----
\* The script text is a sequence of tokens: "T1", "T2" stand for the text
\* `  test('<name>', async () => {` that the start pattern of
\* extractTestBlock matches for that name, "n" for white space, "x" for any
\* run of characters that are neither braces, quotes, `)`, `;` nor white
\* space; "{", "}", "'", ")" and ";" are themselves.
Header(testName) == IF testName = 1 THEN "T1" ELSE "T2"

\* stepToCode texts: a coordinate click, and assert_text for the texts
\* `Welcome`, `}` and `{` (escapeString leaves braces as they are)
Stmt_Click == <<"x", ")", ";">>
Stmt_AssertText(text) == <<"x", "'">> \o text \o <<"'", "{", "x", "}", ")", ")", "x", ";">>
BuilderStatements ==
  { Stmt_Click, Stmt_AssertText(<<"x">>), Stmt_AssertText(<<"}">>), Stmt_AssertText(<<"{">>) }

\* the most statements of one test body here and the tests of the script
MaxBodyStatements == 2
ScriptTests == 2

\* buildTestBlock: the body lines of a block, each statement on its line
RECURSIVE BuilderBodies(_)
BuilderBodies(n) ==
  IF n = 0 THEN {<<>>}
  ELSE BuilderBodies(n - 1)
       \cup {b \o s \o <<"n">> : b \in BuilderBodies(n - 1), s \in BuilderStatements}

\* buildTestBlock: from `  test(` to `});`
blockText(testName, body) == <<Header(testName), "n">> \o body \o <<"}", ")", ";">>

\* generateSuite: the text before the first block (imports, the config
\* loader, the opening of test.describe.serial) and after the last
ScriptPrefix == <<"x", "{", "x", "}", "x", "{", "n">>
ScriptSuffix == <<"}", ")", ";", "n">>

\* generateSuite: the text of blocks from..to with the comment line before
\* and the empty line after each
RECURSIVE blocksText(_, _, _)
blocksText(bodies, from, to) ==
  IF from > to THEN <<>>
  ELSE <<"x", "n">> \o blockText(from, bodies[from]) \o <<"n", "n">>
       \o blocksText(bodies, from + 1, to)

\* generateSuite
scriptText(bodies) == ScriptPrefix \o blocksText(bodies, 1, Len(bodies)) \o ScriptSuffix

\* extractTestBlock: the while loop counting braces from position i on;
\* the position after the loop
RECURSIVE braceScan(_, _, _)
braceScan(fileContents, i, braceDepth) ==
  IF ~(i <= Len(fileContents) /\ braceDepth > 0) THEN i
  ELSE braceScan(fileContents, i + 1,
                 IF fileContents[i] = "{" THEN braceDepth + 1
                 ELSE IF fileContents[i] = "}" THEN braceDepth - 1
                 ELSE braceDepth)

\* the position after the white space from i on
RECURSIVE skipSpace(_, _)
skipSpace(fileContents, i) ==
  IF i <= Len(fileContents) /\ fileContents[i] = "n" THEN skipSpace(fileContents, i + 1)
  ELSE i

\* extractTestBlock: the length of the match of /^\s*\)\s*;/ at i, 0 for none
afterCloseLength(fileContents, i) ==
  LET p == skipSpace(fileContents, i)
      q == skipSpace(fileContents, p + 1)
  IN IF p <= Len(fileContents) /\ fileContents[p] = ")"
        /\ q <= Len(fileContents) /\ fileContents[q] = ";"
     THEN q + 1 - i
     ELSE 0

\* extractTestBlock on the text, positions 1-based: the block is
\* fileContents[startIndex .. endIndex - 1]; <<>> is undefined
extractTestBlockText(fileContents, testName) ==
  IF ~\E m \in 1..Len(fileContents) : fileContents[m] = Header(testName) THEN <<>>
  ELSE LET index == CHOOSE m \in 1..Len(fileContents) :
                      /\ fileContents[m] = Header(testName)
                      /\ \A k \in 1..(m - 1) : fileContents[k] # Header(testName)
           headerEnd == index + 1
           i == braceScan(fileContents, headerEnd, 1)
       IN <<[startIndex |-> index,
             endIndex |-> i + afterCloseLength(fileContents, i)]>>

\* TestRewriter.analyze, the REWRITE splice
spliceTestBody(testFileContents, failedTestName, rewrittenCode) ==
  LET testBlock == extractTestBlockText(testFileContents, failedTestName)
      newTestBlock == <<Header(failedTestName), "n">> \o rewrittenCode \o <<"n", "}", ")", ";">>
  IN IF testBlock = <<>> THEN rewrittenCode
     ELSE SubSeq(testFileContents, 1, testBlock[1].startIndex - 1)
          \o newTestBlock
          \o SubSeq(testFileContents, testBlock[1].endIndex, Len(testFileContents))

\* analyze answers REWRITE with a body for the failing test of the script
SpliceRewrite ==
  /\ rewriteInput # <<>>
  /\ rewriteOutput = <<>>
  /\ rewriteOutput' = <<spliceTestBody(scriptText(rewriteInput[1].bodies),
                                       rewriteInput[1].failedTestName,
                                       rewriteInput[1].rewrittenCode)>>
  /\ UNCHANGED <<restVars, runsDir, runClock, replayInput, replayPos, replayStatus, pageLog,
                 keyCombo, pressedKey, clickSteps, signInput, signOutput, buildInput,
                 buildOutput, rewriteInput>>

InitRewrite ==
  /\ NoTestRun
  /\ runsDir = {}
  /\ runClock = 0
  /\ replayInput = <<>>
  /\ replayPos = 0
  /\ replayStatus = "idle"
  /\ pageLog = <<>>
  /\ keyCombo = <<>>
  /\ pressedKey = <<>>
  /\ clickSteps = <<>>
  /\ signInput = <<>>
  /\ signOutput = <<>>
  /\ buildInput = <<>>
  /\ buildOutput = <<>>
  /\ rewriteInput \in {<<r>> : r \in [bodies : [1..ScriptTests -> BuilderBodies(MaxBodyStatements)],
                                      failedTestName : 1..ScriptTests,
                                      rewrittenCode : {Stmt_Click, Stmt_AssertText(<<"x">>)}]}
  /\ rewriteOutput = <<>>

\* one REWRITE of either test of a script the builder wrote
SpecRewrite == InitRewrite /\ [][SpliceRewrite]_vars

\* ======================= claims =======================
RepeatedResult == <<makeResult(FALSE, S_Repeated, <<>>)>>

\* the last three history entries all have the given signature
LastThreeSigned(history, sig) ==
  /\ Len(history) >= 3
  /\ \A i \in (Len(history) - 2)..Len(history) :
        actionSignature(history[i].action) = sig

\* the next action to consume is not done and repeats the last three entries
GuardCondition ==
  /\ pc = "consume"
  /\ Len(pendingActions) > 0
  /\ Head(pendingActions).type # "done"
  /\ LastThreeSigned(actionHistory, actionSignature(Head(pendingActions)))

\* C1: in action mode the run ends with success=false and "Repeated same
\* action without progress" if and only if the action about to be consumed
\* is not done, the history has at least 3 entries and the last 3 entries
\* (failed ones included) have that action's signature; the guarded action
\* is then neither executed nor recorded.
C1_GuardIff ==
  [][ /\ (pc # "returned" /\ pc' = "returned" /\ result' = RepeatedResult)
           <=> GuardCondition
      /\ GuardCondition => steps' = steps /\ actionHistory' = actionHistory
    ]_vars

\* the guard has fired after three recorded steps, one of them a failed one
C1_Witness ==
  /\ pc = "returned"
  /\ result = RepeatedResult
  /\ Len(steps) = 3
  /\ \E i \in 1..3 : steps[i].error # <<>>

ThreeClicks == LastThreeSigned(actionHistory, actionSignature(Click(400, 300)))

\* C2 as stated: once the same click has been returned (and executed) three
\* times in a row, the test is over with "Repeated same action without
\* progress".
C2_EndsAtThirdClick ==
  ThreeClicks => pc \in {"returned", "idle"} /\ result = RepeatedResult

\* no test runs after a failed one: a failed summary row is the last row,
\* and then the suite loop is over
SuiteStopsAtFailure ==
  \A i \in 1..Len(summaryRows) :
     ~summaryRows[i].passed =>
        i = Len(summaryRows) /\ suitePc = "done" /\ pc = "idle"

\* C2, amended: after the same click has been executed three times in a row
\* the run goes on; it ends with success=false and "Repeated same action
\* without progress" when the model returns that click a fourth time, the
\* fourth click is not executed, and no later test of the suite is run.
C2_EndsAtFourthClick ==
  /\ [][ /\ (ThreeClicks /\ pc' = "returned" /\ result' = RepeatedResult)
              => /\ pc = "consume"
                 /\ Head(pendingActions) = Click(400, 300)
                 /\ steps' = steps
         /\ (pc = "consume" /\ ThreeClicks /\ Len(pendingActions) > 0
               /\ Head(pendingActions) = Click(400, 300))
              => pc' = "returned" /\ result' = RepeatedResult
       ]_vars
  /\ []SuiteStopsAtFailure

\* the first test of a suite of two ended by the guard after three clicks,
\* and the suite is over with that one failed row
C2_Witness ==
  /\ numTests = 2
  /\ suitePc = "done"
  /\ pc = "idle"
  /\ Len(summaryRows) = 1
  /\ ~summaryRows[1].passed
  /\ summaryRows[1].actionCount = 3
  /\ result = RepeatedResult
  /\ ThreeClicks

\* C3: with maxSteps = 0 the run fails at once: the model is never invoked
\* and no step is recorded.
C3_ZeroMaxStepsNoWork ==
  configMaxSteps = 0 => request = <<>> /\ steps = <<>>

\* ---- C4 ----
MaxStepsResult == <<makeResult(FALSE, <<>>, MaxStepsError(optMaxSteps))>>

\* C4 as stated: at every point of a run, in both modes, the number of
\* recorded steps is at most maxSteps
C4_AtMostMaxSteps == Len(steps) <= optMaxSteps

\* C4: in action mode the number of recorded steps never exceeds maxSteps; in
\* both modes it is below maxSteps whenever the loop goes on (asking the model
\* or consuming a pending item); it exceeds maxSteps only in code mode while
\* or after the statements of a done response are run; and a run that ended
\* with maxSteps or more steps and no done response returned the max-steps
\* failure
C4_StepBound ==
  /\ ~codeMode => Len(steps) <= optMaxSteps
  /\ pc \in {"ask", "consume"} => Len(steps) < optMaxSteps
  /\ Len(steps) > optMaxSteps =>
       codeMode /\ finalResponse # <<>> /\ pc \in {"final", "returned", "idle"}
  /\ (pc = "returned" /\ Len(steps) >= optMaxSteps /\ finalResponse = <<>>) =>
       result = MaxStepsResult

C4_Witness ==
  /\ codeMode
  /\ pc = "returned"
  /\ Len(steps) = optMaxSteps
  /\ optMaxSteps >= 2
  /\ result = MaxStepsResult

\* ---- C5 ----
LastStepFailed == Len(steps) > 0 /\ steps[Len(steps)].error # <<>>

\* C5: a step of the run that executes an action whose executor result
\* carries an error records that action with the error, empties the pending
\* batch, remembers the failure, and goes to the model again unless maxSteps
\* is reached (then the run ends with the max-steps result, as after any
\* step); and an action consumed while the last step is a failed one is the
\* first action of a reply obtained after that failure
C5_ErrorNotFatal ==
  /\ [][ (steps' # steps /\ steps'[Len(steps')].error # <<>>) =>
           /\ steps' = Append(steps, [action |-> Head(pendingActions),
                                      reasoning |-> pendingReasoning,
                                      error |-> steps'[Len(steps')].error])
           /\ pendingActions' = <<>>
           /\ lastFailure' # <<>>
           /\ lastFailure'[1].error = steps'[Len(steps')].error
           /\ lastFailure'[1].action = Head(pendingActions)
           /\ IF Len(steps') < optMaxSteps THEN pc' = "ask" /\ result' = result
              ELSE pc' = "returned" /\ result' = MaxStepsResult ]_vars
  /\ [](pc = "consume" /\ LastStepFailed => curIdx = 0 /\ lastFailure = <<>>)

C5_Witness ==
  /\ Len(steps) = 2
  /\ steps[1].error # <<>>
  /\ steps[2].error = <<>>
  /\ pc = "ask"

\* ---- C6 ----
\* the phrases a retry is triggered by
HasRetryPhrase(s) ==
  \/ Includes(s, S_NoResponse)
  \/ Includes(s, S_NoActionReturned)
  \/ Includes(s, S_FailedParse)
  \/ Includes(s, S_FailedParseAI)
  \/ Includes(s, S_UnknownAction)

SingleFailedDone(actions) ==
  Len(actions) = 1 /\ actions[1].type = "done" /\ ~actions[1].success

\* a single done{success:false} whose reason, or whose reasoning when the
\* reason is empty, holds one of the phrases
RetryWorthy(actions, reasoning) ==
  /\ SingleFailedDone(actions)
  /\ HasRetryPhrase(IF actions[1].reason # <<>> THEN actions[1].reason ELSE reasoning)

IsRetry == attempt' = attempt + 1

\* C6 as stated: a retry happens only when the reason of the single
\* done{success:false} holds one of the phrases
C6_RetryOnlyOnReason ==
  [][ IsRetry => LET n == normalizeResult(curReply'[1])
                 IN SingleFailedDone(n.actions) /\ HasRetryPhrase(n.actions[1].reason) ]_vars

\* C6: one request makes at most retryNoResponse + 1 provider calls; an answer
\* is retried exactly when retries are left and its normalized result is a
\* single done{success:false} whose reason (or, the reason being empty, whose
\* reasoning) holds one of the phrases; a retry records no step; and such a
\* result handed to the run ends it as failed with the reason of that done
C6_RetryBound ==
  /\ [](requestCalls <= optRetry + 1 /\ attempt <= optRetry)
  /\ [][ (pc = "ask" /\ requestCalls' = requestCalls + 1 /\ pc' # "returned") =>
           LET n == normalizeResult(curReply'[1])
           IN IF attempt < optRetry /\ RetryWorthy(n.actions, n.reasoning)
              THEN IsRetry /\ pc' = "ask" /\ steps' = steps
              ELSE attempt' = 0 /\ pc' = "consume" /\ pendingActions' = n.actions ]_vars
  /\ [][ (pc = "consume" /\ RetryWorthy(pendingActions, pendingReasoning)) =>
           /\ pc' = "returned"
           /\ result' = <<makeResult(FALSE, pendingActions[1].reason, <<>>)>>
           /\ steps' = steps ]_vars

C6_Witness ==
  /\ pc = "consume"
  /\ requestCalls = optRetry + 1
  /\ optRetry = DefaultRetryNoResponse
  /\ RetryWorthy(pendingActions, pendingReasoning)

\* ---- C7 ----
\* C7: the action recorded by a step is the action at the current position
\* of the latest reply as the model wrote it, and neither it nor any action
\* before it in that reply is a done
C7_NothingAfterDone ==
  [][ steps' # steps =>
        LET raw == curReply[1].actions
        IN /\ curIdx + 1 <= Len(raw)
           /\ steps'[Len(steps')].action = raw[curIdx + 1]
           /\ \A j \in 1..(curIdx + 1) : raw[j].type # "done" ]_vars

C7_Witness ==
  /\ pc = "returned"
  /\ curReply # <<>>
  /\ Len(curReply[1].actions) = 3
  /\ curReply[1].actions[2].type = "done"
  /\ curIdx = 1
  /\ Len(steps) = 1
  /\ result = <<makeResult(TRUE, D_Ok, <<>>)>>

\* ---- C8 ----
SoundsUnfinished(reasoning) ==
  \E k \in 1..Len(unfinished) : Includes(ToLowerCase(reasoning), unfinished[k])

\* the latest reply has a first done that reports success while its
\* reasoning sounds unfinished
DroppedCase ==
  /\ curReply # <<>>
  /\ findDoneIndex(curReply[1].actions) > 0
  /\ curReply[1].actions[findDoneIndex(curReply[1].actions)].success
  /\ SoundsUnfinished(curReply[1].reasoning)

EmptyBatchResult == <<makeResult(FALSE, S_NoActionsFromAI, <<>>)>>

\* C8 as stated: after such a reply the prefix is executed and the model is
\* asked again, so the run does not end on that reply unless an execution
\* throws, the repetition guard fires or maxSteps is reached
C8_AskedAgain ==
  (DroppedCase /\ pc = "returned") =>
     result[1].error # <<>> \/ result[1].message = S_Repeated

\* C8: after such a reply the pending batch is exactly the actions before the
\* done; the run never ends with success while that reply is the current one;
\* if no action precedes the done the run ends at once with "No actions
\* returned from AI" and no step; otherwise the actions are executed in
\* order, and after the last of them the model is asked again unless
\* maxSteps is reached
C8_DroppedDone ==
  /\ [](DroppedCase =>
          /\ pc = "consume" =>
               pendingActions = SubSeq(curReply[1].actions, curIdx + 1,
                                       findDoneIndex(curReply[1].actions) - 1)
          /\ pc \in {"returned", "idle"} => ~result[1].success)
  /\ [][ (DroppedCase /\ pc = "consume") =>
           IF pendingActions = <<>>
           THEN pc' = "returned" /\ result' = EmptyBatchResult /\ steps' = steps
           ELSE /\ steps' # steps => steps'[Len(steps')].action = Head(pendingActions)
                /\ (steps' # steps /\ Len(pendingActions) = 1) =>
                     \/ pc' = "ask"
                     \/ Len(steps') >= optMaxSteps /\ result' = MaxStepsResult ]_vars

C8_Witness ==
  /\ pc = "ask"
  /\ Len(steps) = 1
  /\ steps[1].reasoning = R_Unfinished
  /\ steps[1].action = Click(400, 300)
  /\ steps[1].error = <<>>

\* ---- C9 ----
EmptyCoerced == <<Done(FALSE, S_NoActionsReturned)>>

\* C9: a reply with an empty actions list parses to the single action
\* done{success:false, "No actions returned"}; while that reply is the current
\* one no retry is pending and no feedback is set, the batch handed to the run
\* is that done, no step is recorded, and the run ends failed with that reason
C9_EmptyActions ==
  /\ [](parseJsonResponse(JsonReply(<<>>, R_Plain)).actions = EmptyCoerced)
  /\ []((curReply # <<>> /\ curReply[1].actions = EmptyCoerced) =>
          /\ pc \in {"consume", "returned", "idle"}
          /\ attempt = 0
          /\ retryFeedback = <<>>
          /\ pc = "consume" => pendingActions = EmptyCoerced
          /\ pc \in {"returned", "idle"} =>
               result = <<makeResult(FALSE, S_NoActionsReturned, <<>>)>>)
  /\ [][ (curReply' # <<>> /\ curReply'[1].actions = EmptyCoerced) => steps' = steps ]_vars

C9_Witness ==
  /\ pc = "returned"
  /\ curReply # <<>>
  /\ curReply[1].actions = EmptyCoerced
  /\ result = <<makeResult(FALSE, S_NoActionsReturned, <<>>)>>
  /\ steps = <<>>

\* ---- C10 ----
\* C10: the first model invocation after a failed step sends that step's
\* action and error as failure text and the screenshot taken by the failed
\* execution, and an answered invocation leaves no failure context; every
\* other invocation sends a fresh capture of the current page and no failure
\* text (at most the corrective text of a retry)
C10_FailureFeedbackOnce ==
  [][ (pc = "ask" /\ requestCalls' = requestCalls + 1) =>
        /\ IF LastStepFailed /\ attempt = 0
           THEN request' = <<[screenshot |-> [src |-> "execute", at |-> Len(steps)],
                              lastFailureText |->
                                <<[kind |-> "failure",
                                   action |-> steps[Len(steps)].action,
                                   error |-> steps[Len(steps)].error]>>]>>
           ELSE /\ request'[1].screenshot = [src |-> "capture", at |-> Len(steps)]
                /\ \/ request'[1].lastFailureText = <<>>
                   \/ request'[1].lastFailureText[1].kind = "retry"
        /\ pc' # "returned" => lastFailure' = <<>> ]_vars

C10_Witness ==
  /\ pc = "consume"
  /\ LastStepFailed
  /\ request # <<>>
  /\ request[1].lastFailureText # <<>>
  /\ request[1].lastFailureText[1].kind = "failure"
  /\ request[1].screenshot.src = "execute"
  /\ lastFailure = <<>>

\* ---- C11 ----
S_Cancelled == <<"C","a","n","c","e","l","l","e","d">>

\* C11: once the cancellation signal is set, the next step of the run returns
\* success=false with reason "Cancelled" and records no further step
C11_CancelEndsRun ==
  [][ (cancelSignal /\ pc \in {"ask", "consume"}) =>
        /\ pc' = "returned"
        /\ result' = <<makeResult(FALSE, S_Cancelled, <<>>)>>
        /\ steps' = steps ]_vars

\* ---- C13 ----
\* a run of the driver starts
RunStarts == pc = "idle" /\ pc' # "idle"

\* the results kept so far are those of the tests 1..k, in order
ResultsAreFirst(results, k) ==
  Len(results) = k /\ \A i \in 1..k : results[i].test = i

\* C13: in runTestFile's agentic loop and in the healer's loops, a test is
\* started only when no run is under way and every test before it has
\* produced a result (a passed run, or in the healer a replay), in suite
\* order; and once a run has ended with success=false no run is under way
\* or started and the loop is over
C13_SuiteOrder ==
  /\ [][ RunStarts =>
           /\ testIndex' = testIndex
           /\ IF opc = "agentic"
              THEN /\ ResultsAreFirst(summaryRows, testIndex - 1)
                   /\ \A i \in 1..Len(summaryRows) : summaryRows[i].passed
                   /\ ResultsAreFirst(testResults, testIndex - 1)
              ELSE /\ opc = "healRun"
                   /\ ResultsAreFirst(healTestResults, testIndex - 1)
                   /\ healFailed = 0 ]_vars
  /\ []( ( \/ opc = "agentic" /\ \E i \in 1..Len(summaryRows) : ~summaryRows[i].passed
           \/ healFailed > 0 )
         => pc = "idle" /\ suitePc = "done" /\ testIndex > numTests )

C13_Witness ==
  /\ opc = "finished"
  /\ numTests >= 2
  /\ healFailed = 1
  /\ healLog = <<[test |-> 1, kind |-> "run", skipNavigation |-> TRUE, success |-> FALSE]>>

\* ---- C14 ----
\* C14 as stated: partial replay comes before the smart rewrite, which comes
\* before the full agentic re-derivation
C14_ReplayThenRewrite ==
  \A i, j \in 1..Len(tierLog) :
     i < j => /\ ~(tierLog[i] = "rewrite" /\ tierLog[j] = "replay")
              /\ ~(tierLog[i] = "agentic" /\ tierLog[j] \in {"replay", "rewrite"})

TierRank(tier) ==
  CASE tier = "rewrite" -> 1
    [] tier = "replay" -> 2
    [] tier = "agentic" -> 3

StaticFailedWithNameAndMessage ==
  /\ staticResult # <<>>
  /\ ~staticResult[1].passed
  /\ staticResult[1].failedTestName # 0
  /\ staticResult[1].hasMessage

\* C14: the tiers are started in the order smart rewrite, partial replay +
\* agentic continuation, full agentic re-derivation, each at most once; the
\* rewrite tier is the first whenever healing is on and the static run
\* reported the failing test and its error; a verified rewrite ends the
\* pipeline with no other tier started; and the full re-derivation follows
\* a started replay tier only when a replay failed
C14_TierOrder ==
  /\ \A i, j \in 1..Len(tierLog) : i < j => TierRank(tierLog[i]) < TierRank(tierLog[j])
  /\ (healEnabled /\ StaticFailedWithNameAndMessage) => (tierLog # <<>> /\ tierLog[1] = "rewrite")
  /\ rewriteSucceeded => (tierLog = <<"rewrite">> /\ opc \in {"heal", "finished"} /\ healerCalls = 0)
  /\ (\E i \in 1..Len(tierLog) : tierLog[i] = "replay") /\ tierLog[Len(tierLog)] = "agentic"
       => replayIndex < failedTestIndex

C14_Witness ==
  /\ tierLog = <<"rewrite", "replay", "agentic">>
  /\ opc = "finished"

\* ---- C15 ----
\* C15: for one failing static run the rewriter is consulted at most
\* maxAttempts times; a consultation that writes nothing (AGENTIC, or the
\* rewriter throwing) is the last one, and so is the one whose verification
\* run passes; every write of the script by the rewrite tier is followed by
\* exactly one run of the whole script before the rewriter is consulted again
C15_RewriteLoop ==
  /\ [](analyzeCalls <= RewriterMaxAttempts)
  /\ [](rewriteWrites <= analyzeCalls /\ analyzeCalls <= rewriteWrites + 1)
  /\ []((analyzeCalls = rewriteWrites + 1 \/ rewriteSucceeded)
          => opc \notin {"rewrite", "verifyRewrite"})
  /\ [](rewriteWrites = IF opc = "verifyRewrite" THEN verifyRuns + 1 ELSE verifyRuns)
  /\ [][ /\ (analyzeCalls' # analyzeCalls =>
               /\ analyzeCalls' = analyzeCalls + 1
               /\ rewriteWrites = verifyRuns
               /\ ~rewriteSucceeded
               /\ analyzeCalls = rewriteWrites)
         /\ (rewriteWrites' # rewriteWrites =>
               /\ rewriteWrites' = rewriteWrites + 1
               /\ analyzeCalls' = analyzeCalls + 1
               /\ scriptFile' # <<>>)
         /\ (verifyRuns' # verifyRuns =>
               /\ verifyRuns' = verifyRuns + 1
               /\ scriptFile' = scriptFile) ]_vars

C15_Witness ==
  /\ analyzeCalls = RewriterMaxAttempts
  /\ rewriteWrites = RewriterMaxAttempts
  /\ verifyRuns = RewriterMaxAttempts
  /\ ~rewriteSucceeded
  /\ opc = "heal"

\* ---- C16 ----
\* C16: a consultation of the rewriter on a script in which the failing
\* test's block cannot be located leaves the script file as it is and hands
\* over to the healer
C16_NoBlockNoWrite ==
  [][ (analyzeCalls' # analyzeCalls
       /\ extractTestBlock(scriptFile, currentResult[1].failedTestName) = 0)
      => (scriptFile' = scriptFile /\ opc' = "heal") ]_vars

\* ---- C17 ----
PastRewriteTier == opc \notin {"static", "rewrite", "verifyRewrite", "heal"}

\* C17: the healer is invoked at most once for a suite; once the pipeline
\* of a failed static run with healing enabled is past the rewrite tier,
\* the healer has been invoked exactly once when the tier did not end with
\* a verified pass (AGENTIC, rewriter exception, attempts exhausted, or the
\* tier skipped for want of a test name or error message) and not at all
\* when it did
C17_HealerOnce ==
  /\ healerCalls <= 1
  /\ (PastRewriteTier /\ healEnabled /\ ~staticResult[1].passed)
       => healerCalls = IF rewriteSucceeded THEN 0 ELSE 1
  /\ rewriteSucceeded => healerCalls = 0
  /\ (staticResult # <<>> /\ (staticResult[1].passed \/ ~healEnabled)) => healerCalls = 0

C17_Witness ==
  /\ opc = "finished" /\ healerCalls = 1
  /\ verifyRuns = RewriterMaxAttempts /\ ~rewriteSucceeded

\* ---- C18 ----
\* the verification run of the regenerated script passed for a test: the
\* script holds the test and the run passed as a whole, or failed at a
\* test that comes later in the script
VerifiedFor(name) ==
  /\ healVerified # <<>>
  /\ \E i \in 1..Len(scriptFile.blocks) :
       /\ scriptFile.blocks[i].name = name
       /\ \/ healVerified[1].passed
          \/ \E j \in (i + 1)..Len(scriptFile.blocks) :
               scriptFile.blocks[j].name = healVerified[1].failedTestName

HealerHasResultFor(name) ==
  \E i \in 1..Len(healTestResults) : healTestResults[i].test = name

\* C18: when the pipeline ends after the healer ran, the regenerated script
\* has been run once more if the healer produced any result, one row per
\* test is reported, a test is reported passed only if that verification
\* run passed for it, and every test without a healer result is reported
\* failed
C18_VerifiedOnly ==
  (opc = "finished" /\ healerCalls = 1) =>
    /\ Len(summaryRows) = numTests
    /\ (healTestResults # <<>>) = (healVerified # <<>>)
    /\ healTestResults # <<>> => scriptFile = generateSuite(healTestResults)
    /\ \A i \in 1..numTests :
         /\ summaryRows[i].test = i
         /\ summaryRows[i].passed => VerifiedFor(i)
         /\ ~HealerHasResultFor(i) => ~summaryRows[i].passed

C18_Witness ==
  /\ opc = "finished" /\ healerCalls = 1
  /\ numTests >= 2
  /\ Len(healTestResults) = 1
  /\ healVerified # <<>> /\ healVerified[1].passed
  /\ summaryRows[1].passed /\ ~summaryRows[2].passed

\* ---- C19 ----
\* the script and the sidecar hold what they held before healing
ArtifactsAsBefore ==
  /\ \E indented \in BOOLEAN : scriptFile = ScriptAsSaved(numTests, indented)
  /\ sidecarFile \in {saveSuiteSteps(SavedResults(numTests)),
                      [readable |-> FALSE, tests |-> <<>>]}

\* the script and the sidecar hold the same tests, the script generated
\* from the steps the sidecar holds
ArtifactsMatch ==
  /\ scriptFile.kind = "suite"
  /\ sidecarFile.readable
  /\ Len(sidecarFile.tests) = Len(scriptFile.blocks)
  /\ \A i \in 1..Len(scriptFile.blocks) :
       /\ scriptFile.blocks[i].name = sidecarFile.tests[i].name
       /\ scriptFile.blocks[i].body = [from |-> "steps", steps |-> sidecarFile.tests[i].steps]

\* the last run of the script, as it is on disk, passed
LastRunPassed ==
  \/ healVerified # <<>> /\ healVerified[1].passed
  \/ healVerified = <<>> /\ rewriteSucceeded

\* C19: when the healing pipeline has finished, the script and the sidecar
\* are both as before healing, or a matching pair whose verification run
\* passed
C19_ArtifactsConsistent ==
  (opc = "finished" /\ healEnabled /\ ~staticResult[1].passed)
    => (ArtifactsAsBefore \/ (ArtifactsMatch /\ LastRunPassed))

\* ---- C20 ----
\* the cutoff of the replay phase, and the results it fills
ReplayCutoff ==
  IF healerCalls > 0 THEN failedTestIndex
  ELSE firstMissingTestIndex(scriptFile, sidecarFile, numTests)
ReplayResults == IF healerCalls > 0 THEN healTestResults ELSE testResults
PastReplay ==
  /\ ReplayCutoff > 0
  /\ \/ healerCalls = 0 /\ opc = "agentic"
     \/ healerCalls > 0 /\ opc \in {"healRun", "healSave", "verifyHeal", "finished"}

\* the first k tests were replayed in order from their saved steps (steps
\* that had failed left out), every later entry of the log is a run of the
\* next test with skipNavigation, and the results of the first k tests are
\* their saved steps
ReplayedThenRun(k) ==
  /\ Len(healLog) >= k
  /\ \A i \in 1..k :
       healLog[i] = [test |-> i, kind |-> "replay",
                     replayed |-> SelectSeq(RecordedSteps(i), LAMBDA s : s.error = <<>>)]
  /\ \A i \in (k + 1)..Len(healLog) :
       healLog[i].kind = "run" /\ healLog[i].test = i /\ healLog[i].skipNavigation
  /\ Len(ReplayResults) >= k
  /\ \A i \in 1..k : ReplayResults[i] = [test |-> i, steps |-> RecordedSteps(i)]

\* C20 as stated: once a replay phase with cutoff k is over, exactly the
\* first k tests have been replayed and the driver runs the tests from k on
C20_AlwaysReplaysK == PastReplay => ReplayedThenRun(ReplayCutoff)

\* a replay failed and the suite was started over at the first test
FellBack == PastReplay /\ replayIndex < ReplayCutoff

\* C20: once a replay phase with cutoff k is over and no replay failed,
\* exactly the first k tests have been replayed, in order, from their saved
\* steps, their results are those saved steps, and every run after them is
\* the run of the next test, on the same page, with skipNavigation; a run
\* that ends with success adds the steps it recorded as that test's result,
\* and a run that fails adds nothing.  When a replay failed the tests are
\* run from the first on, all with skipNavigation.
C20_PartialReplay ==
  /\ []((PastReplay /\ ~FellBack) => ReplayedThenRun(ReplayCutoff))
  /\ [](FellBack =>
          \A i \in (replayIndex + 1)..Len(healLog) :
             /\ healLog[i].kind = "run"
             /\ healLog[i].test = i - replayIndex
             /\ healLog[i].skipNavigation)
  /\ [][ (PastReplay /\ pc = "returned" /\ pc' = "idle") =>
           ReplayResults' = IF result[1].success
                            THEN Append(ReplayResults, [test |-> testIndex, steps |-> steps])
                            ELSE ReplayResults ]_vars

C20_Witness ==
  /\ healerCalls = 0 /\ opc = "agentic" /\ suitePc = "done"
  /\ ReplayCutoff = numTests - 1
  /\ Len(healLog) = numTests
  /\ healLog[numTests] = [test |-> numTests, kind |-> "run", skipNavigation |-> TRUE, success |-> TRUE]
  /\ Len(testResults) = numTests
  /\ testResults[1].steps = RecordedSteps(1)
  /\ testResults[numTests].steps # <<>>

\* ---- C21 ----
\* a pass of a replay loop that ends the loop without having replayed its test
ReplayAbandoned ==
  /\ opc \in {"replay", "agenticReplay"}
  /\ opc' \notin {"replay", "agenticReplay"}
  /\ replayIndex' = replayIndex

\* the runs logged since the replays
RunsSinceReplay == {i \in (replayIndex + 1)..Len(healLog) : healLog[i].kind = "run"}

\* C21: when a replay of the partial-replay tier fails, the page is
\* navigated to the base URL once more, the results of the tests replayed
\* so far are dropped, and the agentic loop starts at the first test; from
\* then on the tests are run in suite order from the first one (the suite
\* stopping at the first that fails), and the results hold exactly the
\* tests that passed in those runs
C21_ReplayFailureRestarts ==
  /\ [][ ReplayAbandoned =>
           /\ pageGotos' = pageGotos + 1
           /\ ReplayResults' = <<>>
           /\ testIndex' = 1 /\ pc' = "idle" /\ suitePc' = "running" ]_vars
  /\ [](FellBack =>
          /\ \A i \in (replayIndex + 1)..Len(healLog) :
               healLog[i].kind = "run" /\ healLog[i].test = i - replayIndex
          /\ Len(ReplayResults) = Cardinality({i \in RunsSinceReplay : healLog[i].success})
          /\ \A i \in 1..Len(ReplayResults) :
               /\ ReplayResults[i].test = i
               /\ healLog[replayIndex + i].success
          /\ (suitePc = "done" =>
                \/ Len(healLog) - replayIndex = numTests
                \/ ~healLog[Len(healLog)].success))

C21_Witness ==
  /\ FellBack /\ healerCalls = 1 /\ replayIndex = 1 /\ pageGotos = 2
  /\ healLog[1].kind = "replay"
  /\ suitePc = "done"
  /\ Len(healLog) = numTests + 1
  /\ Len(healTestResults) = numTests
  /\ healTestResults[1].steps # RecordedSteps(1)

\* ---- C22 ----
\* the sidecar was loaded and lacks an entry for a test of the suite
SidecarLacksTest ==
  /\ sidecarFile # <<>>
  /\ sidecarFile.readable
  /\ \E i \in 1..numTests :
       \A j \in 1..Len(sidecarFile.tests) : sidecarFile.tests[j].name # i

\* C22: at the branch of runTestFile the suite goes to the agentic path,
\* with no static run before it, exactly when --agentic is given, or there
\* is no script file, or there is a script and no sidecar file, or the
\* sidecar lacks a test of the suite; in every other case the static runner
\* runs first and no test is run by the driver before it
C22_Routing ==
  [][ opc = "route" =>
        /\ (opc' \in {"agentic", "agenticReplay"})
             = ( \/ optAgentic
                 \/ scriptFile = <<>>
                 \/ (scriptFile # <<>> /\ sidecarFile = <<>>)
                 \/ (scriptFile # <<>> /\ SidecarLacksTest) )
        /\ opc' \in {"agentic", "agenticReplay", "static"}
        /\ staticResult' = <<>> /\ staticResult = <<>>
        /\ (opc' = "static" => suitePc' = "waiting" /\ pc' = "idle" /\ healLog' = <<>>) ]_vars

C22_Witness ==
  /\ opc = "agenticReplay" /\ ~optAgentic
  /\ scriptFile # <<>> /\ SidecarLacksTest
  /\ staticResult = <<>>

\* ---- C23 ----
\* C23: when a run of the suite is complete, the sidecar names tests of the
\* suite only, and they are the first tests of the suite in suite order
C23_SidecarIsPrefix ==
  (opc = "finished" /\ sidecarFile # <<>> /\ sidecarFile.readable) =>
    /\ Len(sidecarFile.tests) <= numTests
    /\ \A j \in 1..Len(sidecarFile.tests) : sidecarFile.tests[j].name = j

\* ---- C24 ----
\* the results the files of this run are written from
RunResults == IF healerCalls > 0 THEN healTestResults ELSE testResults

\* the script and the sidecar have been written in this run
WrittenThisRun ==
  /\ RunResults # <<>>
  /\ \/ healerCalls = 0 /\ staticResult = <<>> /\ opc \in {"agenticRewrite", "finished"}
     \/ healerCalls > 0 /\ opc \in {"verifyHeal", "finished"}

\* a replay or a run has ended with success and its steps are added
SuccessAdds(results, added) ==
  /\ added = Append(results, added[Len(added)])
  /\ \/ /\ opc \in {"replay", "agenticReplay"}
        /\ replayIndex' = replayIndex + 1
        /\ added[Len(added)].test = replayIndex'
     \/ /\ pc = "returned" /\ result[1].success
        /\ added[Len(added)] = [test |-> testIndex, steps |-> steps]

\* C24: a run that ends in failure adds nothing to the results and writes
\* no file; the results grow only by a test that succeeded or was replayed;
\* and the sidecar and the script written in a run hold exactly the tests
\* of those results with their steps (the script until the rewriter changes
\* it), so the test that failed is in neither
C24_OnlySuccessOnDisk ==
  /\ [][ (pc = "returned" /\ pc' = "idle" /\ ~result[1].success) =>
           /\ testResults' = testResults /\ healTestResults' = healTestResults
           /\ scriptFile' = scriptFile /\ sidecarFile' = sidecarFile ]_vars
  /\ [][ /\ (testResults' # testResults =>
               testResults' = <<>> \/ SuccessAdds(testResults, testResults'))
         /\ (healTestResults' # healTestResults =>
               healTestResults' = <<>> \/ SuccessAdds(healTestResults, healTestResults')) ]_vars
  /\ [](WrittenThisRun =>
          /\ sidecarFile.readable
          /\ Len(sidecarFile.tests) = Len(RunResults)
          /\ \A i \in 1..Len(RunResults) :
               /\ sidecarFile.tests[i].name = RunResults[i].test
               /\ sidecarFile.tests[i].steps = RunResults[i].steps
          /\ (result # <<>> /\ ~result[1].success) =>
                \A i \in 1..Len(sidecarFile.tests) : sidecarFile.tests[i].name # Len(RunResults) + 1)
  /\ [][ (sidecarFile' # sidecarFile) =>
           /\ scriptFile'.kind = "suite"
           /\ Len(scriptFile'.blocks) = Len(RunResults')
           /\ \A i \in 1..Len(RunResults') :
                /\ scriptFile'.blocks[i].name = RunResults'[i].test
                /\ scriptFile'.blocks[i].body = [from |-> "steps", steps |-> RunResults'[i].steps] ]_vars

C24_Witness ==
  /\ WrittenThisRun /\ opc = "finished" /\ healerCalls = 0
  /\ result # <<>> /\ ~result[1].success /\ steps # <<>>
  /\ Len(sidecarFile.tests) = 1
  /\ numTests >= 2

\* ---- C25 ----
\* C25: no test is listed twice in the summary rows, and when the run of
\* the suite is complete every test the driver ran or the replayer replayed
\* has a row
C25_OneRowPerTest ==
  /\ \A i, j \in 1..Len(summaryRows) :
       i # j => summaryRows[i].test # summaryRows[j].test
  /\ opc = "finished" =>
       \A k \in 1..Len(healLog) :
          \E i \in 1..Len(summaryRows) : summaryRows[i].test = healLog[k].test

\* ---- C26 ----
\* C26: when the run of the suite is complete, the command ends with exit
\* status 0 exactly when every test of the suite has a row and every row
\* is a pass
C26_ExitStatus ==
  opc = "finished" =>
    ( (runExitStatus(summaryRows) = 0)
        = ( /\ \A i \in 1..Len(summaryRows) : summaryRows[i].passed
            /\ \A n \in 1..numTests :
                 \E i \in 1..Len(summaryRows) : summaryRows[i].test = n ) )

\* ---- C27 ----
suiteRuns(dirs, s) == {d \in dirs : d.suite = s}

mostRecent(dirs, s, k) ==
  {d \in suiteRuns(dirs, s) :
     Cardinality({e \in suiteRuns(dirs, s) : e.stamp > d.stamp}) < k}

\* C27: a static run leaves no suite with more than 10 run directories,
\* and it deletes no directory that is among its suite's 10 most recent
C27_PrunePerSuite ==
  [][ /\ \A s \in RunSuites : Cardinality(suiteRuns(runsDir', s)) <= keepLast
      /\ \A d \in runsDir \ runsDir' : d \notin mostRecent(runsDir, d.suite, keepLast)
    ]_vars

\* ---- C30 ----
\* C30: what normalizeKeyCombo returns is a fixed point of normalizeKeyCombo,
\* in the executor, in the replayer and in the builder
C30_Idempotent ==
  pressedKey # <<>> =>
    /\ normalizeKeyCombo(pressedKey[1].executor) = pressedKey[1].executor
    /\ replayerNormalizeKeyCombo(pressedKey[1].replayer) = pressedKey[1].replayer
    /\ builderNormalizeKeyCombo(pressedKey[1].builder) = pressedKey[1].builder

\* ---- C28 ----
AssertOrDone == {"assert_visible", "assert_text", "done"}

ReplayPrimitives ==
  {"click", "click_button", "click_text", "select_input", "double_click", "type", "key",
   "scroll", "wait"}

\* the steps the loop has passed
PassedSteps == 1..(replayPos - 1)

C29_SameLocator ==
  \A k \in 1..Len(pageLog) :
    pageLog[k].ok => stepToCode(replayInput[pageLog[k].step]) = <<pageLog[k].made>>

\* ---- C35 ----
\* C35: in action mode the provider is called at most maxSteps x
\* (retryNoResponse + 1) times in a run; the loop body is entered only with
\* fewer than maxSteps steps recorded, and a pass that takes an action
\* returns or records exactly one step; every run that has started returns
C35_Terminates ==
  /\ [](providerCalls <= optMaxSteps * (optRetry + 1))
  /\ [](pc \in {"ask", "consume"} => Len(steps) < optMaxSteps)
  /\ [][pc = "consume" => (pc' = "returned" \/ Len(steps') = Len(steps) + 1)]_vars
  /\ [][pc = "ask" => (Len(steps') = Len(steps) /\ pc' \in {"ask", "consume", "returned"})]_vars
  /\ (pc \in {"ask", "consume"} ~> pc = "returned")

\* a run that used every provider call it may make
C35_Witness ==
  /\ pc = "returned"
  /\ optMaxSteps >= 2
  /\ Len(steps) = optMaxSteps
  /\ providerCalls = optMaxSteps * (optRetry + 1)

\* ---- C36 ----
\* C36: an action-mode run returns success only by consuming a
\* done{success: true} of the model's latest response, and then every action
\* before that done in the response was executed, in order, without error
C36_PassOnlyByCleanDone ==
  [][ (~codeMode /\ pc # "returned" /\ pc' = "returned" /\ result'[1].success) =>
        /\ pc = "consume"
        /\ pendingActions # <<>>
        /\ Head(pendingActions).type = "done"
        /\ Head(pendingActions).success
        /\ curReply # <<>>
        /\ curIdx < Len(curReply[1].actions)
        /\ curReply[1].actions[curIdx + 1] = Head(pendingActions)
        /\ curIdx <= Len(steps)
        /\ \A j \in 1..curIdx :
             /\ steps[Len(steps) - curIdx + j].action = curReply[1].actions[j]
             /\ steps[Len(steps) - curIdx + j].error = <<>>
    ]_vars

\* a run passed on a done that followed an executed action of its response
C36_Witness ==
  /\ ~codeMode
  /\ pc = "returned"
  /\ result[1].success
  /\ curIdx >= 1
  /\ steps[Len(steps)].error = <<>>
  /\ \E i \in 1..Len(steps) : steps[i].error # <<>>

\* ---- C37 ----
\* the latest reply is a single done that reports success while its
\* reasoning sounds unfinished
SoleDroppedDone ==
  /\ curReply # <<>>
  /\ Len(curReply[1].actions) = 1
  /\ curReply[1].actions[1].type = "done"
  /\ curReply[1].actions[1].success
  /\ SoundsUnfinished(curReply[1].reasoning)

\* C37: when the response is only a success done with unfinished-sounding
\* reasoning, the batch handed to run is empty, no retry is pending, and the
\* next thing run does is return success=false with "No actions returned
\* from AI", with no step recorded and the model not asked again
C37_EmptyAfterDrop ==
  /\ [](SoleDroppedDone =>
          /\ pc \in {"consume", "returned", "idle"}
          /\ attempt = 0
          /\ retryFeedback = <<>>
          /\ pc = "consume" => pendingActions = <<>>
          /\ pc \in {"returned", "idle"} => result = EmptyBatchResult)
  /\ [][ SoleDroppedDone =>
           /\ requestCalls' <= requestCalls
           /\ steps' = steps
           /\ pc = "consume" => (pc' = "returned" /\ result' = EmptyBatchResult) ]_vars

C37_Witness ==
  /\ SoleDroppedDone
  /\ pc = "returned"
  /\ result = EmptyBatchResult
  /\ Len(steps) >= 1

\* ---- C38 ----
\* the latest reply has a first done that reports failure and follows at
\* least one other action
TrailingFailDone ==
  /\ curReply # <<>>
  /\ findDoneIndex(curReply[1].actions) > 1
  /\ ~curReply[1].actions[findDoneIndex(curReply[1].actions)].success

\* the run ends on the failure reported by a done it takes from the batch
EndsOnFailDone ==
  /\ pc = "consume"
  /\ pendingActions # <<>>
  /\ Head(pendingActions).type = "done"
  /\ ~Head(pendingActions).success
  /\ pc' = "returned"

\* after a reply with a failing done behind other actions, the batch is the
\* actions before that done, the run does not end on a done, and after the
\* last of those actions the model is asked again unless maxSteps is reached
FailDoneDiscarded ==
  /\ [](TrailingFailDone =>
          /\ pc = "consume" =>
               pendingActions = SubSeq(curReply[1].actions, curIdx + 1,
                                       findDoneIndex(curReply[1].actions) - 1)
          /\ pc \in {"returned", "idle"} =>
               \/ result[1].error # <<>>
               \/ result[1].message = S_Repeated)
  /\ [][ (TrailingFailDone /\ pc = "consume") =>
           /\ steps' # steps => steps'[Len(steps')].action = Head(pendingActions)
           /\ (steps' # steps /\ Len(pendingActions) = 1) =>
                \/ pc' = "ask"
                \/ Len(steps') >= optMaxSteps /\ result' = MaxStepsResult ]_vars

\* C38 as stated: such a done is discarded, and a failing done ends the
\* test only when it is the sole action of its response
C38_SoleDoneOnly ==
  /\ FailDoneDiscarded
  /\ [][ EndsOnFailDone => Len(curReply[1].actions) = 1 ]_vars

\* C38: such a done is discarded, and a failing done ends the test only
\* when it is the first action of its response
C38_FirstDoneOnly ==
  /\ FailDoneDiscarded
  /\ [][ EndsOnFailDone =>
           /\ curIdx = 0
           /\ curReply[1].actions[1] = Head(pendingActions) ]_vars

\* the model is asked again after the two actions that preceded a discarded
\* failing done were executed
C38_Witness ==
  /\ pc = "ask"
  /\ Len(steps) = 2
  /\ steps[1].action = Click(400, 300)
  /\ steps[2].action = Type(T_Hi)
  /\ steps[2].error = <<>>
  /\ optMaxSteps > 2

\* ---- C39 ----
\* the number of final statements of the done response taken so far
finalTaken == Len(finalResponse[1].code) - Len(pendingCode)

\* the executor threw and ended the run
ExecutorThrew == pc \in {"returned", "idle"} /\ result[1].error # <<>>

\* C39: in code mode, after a done response with final statements, every
\* statement is executed in order and recorded as a step carrying the error
\* the executor returned for it, an error does not stop the remaining
\* statements, and the run returns the success flag of the response whether
\* or not a final step has an error (unless the executor itself throws)
C39_FinalCodeAllRun ==
  /\ []((codeMode /\ finalResponse # <<>> /\ Len(finalResponse[1].code) > 0
          /\ pc \in {"final", "returned"} /\ ~ExecutorThrew) =>
         /\ finalTaken \in 0..Len(steps)
         /\ \A i \in 1..finalTaken :
              /\ steps[Len(steps) - finalTaken + i].code = finalResponse[1].code[i]
              /\ steps[Len(steps) - finalTaken + i].reasoning = finalResponse[1].reasoning
         /\ pc = "final" => finalTaken < Len(finalResponse[1].code)
         /\ pc = "returned" =>
              /\ finalTaken = Len(finalResponse[1].code)
              /\ result[1].success = finalResponse[1].success)
  /\ [][ (pc = "final" /\ ~ExecutorThrew') =>
           /\ Len(steps') = Len(steps) + 1
           /\ steps'[Len(steps')].code = Head(pendingCode)
           /\ pendingCode' = Tail(pendingCode)
           /\ pc' = IF Len(pendingCode) > 1 THEN "final" ELSE "returned" ]_vars

\* a code-mode run has returned success after two final statements of which
\* the first returned an error
C39_Witness ==
  /\ codeMode
  /\ pc = "returned"
  /\ finalResponse # <<>>
  /\ Len(finalResponse[1].code) = 2
  /\ Len(steps) >= 2
  /\ steps[Len(steps) - 1].error # <<>>
  /\ steps[Len(steps)].code = finalResponse[1].code[2]
  /\ result[1].success
  /\ result[1].error = <<>>

\* ---- C31 ----
\* C31: every recorded step whose action is a click variant (click,
\* double_click, click_button) and that has no error carries an elementInfo
C31_ClickHasElementInfo ==
  \A i \in 1..Len(clickSteps) :
     (clickSteps[i].action.type \in {"click", "double_click", "click_button"}
        /\ clickSteps[i].error = <<>>)
       => clickSteps[i].elementInfo # <<>>

\* ---- C32 ----
\* the fields of an action that tell it from another of the same variant
SalientFields ==
  {"x", "y", "button", "name", "text", "field", "value", "key", "direction", "amount",
   "ms", "startX", "startY", "endX", "endY"}

\* same variant and the same salient fields
sameSalient(a, b) ==
  /\ a.type = b.type
  /\ \A f \in SalientFields :
       /\ f \in DOMAIN a <=> f \in DOMAIN b
       /\ f \in DOMAIN a => a[f] = b[f]

\* C32: signing an action again gives the same string; two actions get the
\* same signature only if they have the same variant and the same salient
\* fields; and the guard does not fire for an action that differs in a
\* salient field from the actions before it
C32_SignatureInjective ==
  signOutput # <<>> =>
    /\ signOutput[1].again = signOutput[1].first
    /\ signOutput[1].first = signOutput[1].second => sameSalient(signInput[1], signInput[2])
    /\ signOutput[1].repeated => sameSalient(signInput[1], signInput[2])

\* ---- C33 ----
\* the code of the lines of a block, without the comments
codeLines(lines) ==
  IF lines = <<>> THEN <<>>
  ELSE LET idx == {i \in 1..Len(lines) : lines[i].kind = "code"}
           nth(k) == CHOOSE i \in idx : Cardinality({j \in idx : j < i}) = k - 1
       IN [k \in 1..Cardinality(idx) |-> lines[nth(k)].code]

\* the code of the steps with every assertion dropped whose code equals the
\* code written just before it; prev is that code
RECURSIVE withoutConsecutive(_, _)
withoutConsecutive(recorded, prev) ==
  IF recorded = <<>> THEN <<>>
  ELSE LET step == Head(recorded)
           code == codeOf(step)
       IN IF code = <<>> THEN withoutConsecutive(Tail(recorded), prev)
          ELSE IF isAssertion(step) /\ prev = code
          THEN withoutConsecutive(Tail(recorded), prev)
          ELSE <<code[1]>> \o withoutConsecutive(Tail(recorded), code)

\* C33: in each generated test, of consecutive identical assertions one is
\* written and nothing else is removed (an assertion that repeats an earlier
\* one after another step is written again), each test by its own steps only
C33_OnlyConsecutiveDeduped ==
  buildOutput # <<>> =>
    \A i \in 1..Len(buildInput) :
       codeLines(buildOutput[i].lines) = withoutConsecutive(buildInput[i].steps, <<>>)

\* ---- C34 ----
\* C34: on a REWRITE the new script is the original text before the failing
\* test's block, then a new block of the same test name holding the returned
\* body, then the original text after that block, whatever bodies the
\* builder wrote (string literals with braces included)
C34_SpliceFrame ==
  rewriteOutput # <<>> =>
    LET bodies == rewriteInput[1].bodies
        k == rewriteInput[1].failedTestName
    IN rewriteOutput[1] =
         ScriptPrefix \o blocksText(bodies, 1, k - 1) \o <<"x", "n">>
         \o <<Header(k), "n">> \o rewriteInput[1].rewrittenCode \o <<"n", "}", ")", ";">>
         \o <<"n", "n">> \o blocksText(bodies, k + 1, Len(bodies)) \o ScriptSuffix

====
